---- MODULE Spec2Model ----
(***************************************************************************)
(* A model of the 4Charm download engine: FourChanScraper.download_file   *)
(* (core/scraper.py), DownloadQueue (core/models.py) and the batch         *)
(* orchestrator MultiUrlDownloadWorker.run (gui/workers.py).               *)
(*                                                                         *)
(* One FourChanScraper instance lives as long as the main window and is    *)
(* handed to every batch (gui/main_window.py:108, :567), so its counters,  *)
(* flags, hash set and queue carry over from one batch to the next.        *)
(*                                                                         *)
(* A file is the sequence of chunks written to it; chunk i of content c is *)
(* the number c * 10 + i.  The SHA-256 of a file is modelled by the file's *)
(* content itself (an injective hash).                                     *)
(***************************************************************************)
EXTENDS Integers, Sequences, FiniteSets, TLC

\* ---- program constants (four_charm/config.py) ----
MAX_RETRIES == 3
MAX_FILENAME_LENGTH == 200
BASE_DELAY == 300        \* 0.3 s
MAX_DELAY == 5000        \* 5.0 s
MAX_WORKERS == 2      \* min(5, cpu_count()) on a machine with two cores
MIN_FREE_SPACE_MB == 100

\* ---- bounds of the model ----
NumTasks == 2       \* media files discovered by one batch
RemoteSize == 2     \* chunks of every remote file
MaxBatches == 2     \* batches run on the one scraper instance
MaxFaults == 3      \* faults of the network, the disk and hashing
MaxHostLen == 3     \* pieces of the host of a url given to parse_url
MaxSegs == 3        \* path segments of a url given to parse_url
MaxBlocks == 4      \* blocks of a name given to sanitize_filename
MaxPosts == 2       \* posts of a thread given to extract_media_from_posts
MaxNameParts == 3   \* parts of a file name given to _prepare_download_path
MaxDelayCalls == 6  \* updates of the delay between two requests
NumContents == 2    \* contents a file or a url may have
MaxContentLength == 2  \* value of a content-length header
MaxHistory == 3     \* records in the history before the last pair of calls
MaxLocators == 2    \* locators of one run
MaxCatalogThreads == 2  \* threads a catalog lists

VARIABLES
    tasks,              \* the descriptors discovery yields: <<[url, path], ...>>
    content,            \* content[u]: the content the media host serves for url u
    disk,               \* disk[p]: [exists, data] of destination path p
    stats,              \* FourChanScraper.stats
    downloaded_hashes,  \* FourChanScraper.downloaded_hashes
    paused,             \* FourChanScraper.paused
    cancelled,          \* FourChanScraper.cancelled
    download_queue,     \* FourChanScraper.download_queue (DownloadQueue)
    fut,                \* fut[t]: the frame of the download_file call of task t
    net,                \* net[t]: what an observer of task t's transfer saw:
                        \* the size found at its path when it began (-1 for
                        \* no file), the GETs it issued, the chunks it received
    opc,                \* where MultiUrlDownloadWorker.run is
    batch,              \* number of batches started
    completed,          \* run's local counter `completed`
    collected,          \* futures as_completed has handed to the loop body
    events,             \* signals emitted by the current run, in order
    finalStats,         \* payload of the last finished signal
    faults,             \* faults so far
    cancelIn,           \* cancel() was called during the discovery or the
                        \* collection of the current batch
    lists,              \* the DownloadQueue as the lists it is made of, for
                        \* the calls of two pool threads taken apart
    thr,                \* thr[w]: where pool thread w is in such a call
    call,               \* a call of one of the engine's functions on its
                        \* own: [fn, arg, ret]
    current_delay,      \* FourChanScraper.current_delay, in milliseconds
    stats_mutex,        \* FourChanScraper.stats_mutex: its holder, 0 when free
    discovery,          \* the locals of run and of the pool, taken apart
                        \* request by request: [i, left, total_files, ...]
    requests            \* the requests sent through FourChanScraper.session
                        \* in that view, in order: [kind, by, waited]

vars == <<tasks, content, disk, stats, downloaded_hashes, paused, cancelled,
          download_queue, fut, net, opc, batch, completed, collected, events,
          finalStats, faults, cancelIn, lists, thr, call, current_delay,
          stats_mutex, discovery, requests>>

Urls == 1..NumTasks
Paths == 1..NumTasks
TaskIds == 1..NumTasks

Chunk(c, i) == c * 10 + i

\* The full body the media host serves for url u.
RemoteBody(u) == [i \in 1..RemoteSize |-> Chunk(content[u], i)]

Absent == [exists |-> FALSE, data |-> <<>>]
File(d) == [exists |-> TRUE, data |-> d]

\* MediaFile.calculate_hash: SHA-256 of the file's bytes.
calculate_hash(file) == file.data

Live(t) == t <= Len(tasks)
Url(t) == tasks[t].url
Path(t) == tasks[t].path

\* ---- DownloadQueue (core/models.py) ----

start_download(q, url) ==
    [q EXCEPT !.queue = @ \ {url},
              !.active_downloads = @ \cup {url}]

complete_download(q, url) ==
    [q EXCEPT !.active_downloads = @ \ {url},
              !.completed = @ \cup {url},
              !.history = IF url \in q.completed THEN @
                          ELSE Append(@, [url |-> url, status |-> "completed",
                                          error |-> ""])]

fail_download(q, url, error) ==
    [q EXCEPT !.active_downloads = @ \ {url},
              !.failed = @ \cup {url},
              !.history = IF url \in q.failed THEN @
                          ELSE Append(@, [url |-> url, status |-> "failed",
                                          error |-> error])]

\* ---- frames ----

NoTraffic == [found |-> -1, gets |-> 0, wire |-> 0]

NoFrame == [pc |-> "none", attempt |-> 0, body |-> <<>>, chunk |-> 0,
            result |-> "none", cause |-> ""]

\* run before its first pass: no locator taken, no thread left to scrape, no
\* file found, no call submitted, no wait since the last request.
NoDiscovery == [i |-> 0, left |-> 0, total_files |-> 0, submitted |-> 0,
                taken |-> 0, waited |-> FALSE, error_info |-> "none"]

Returned(f, res, cause) ==
    [f EXCEPT !.pc = "done", !.result = res, !.cause = cause,
              !.body = <<>>, !.chunk = 0]

Running == {t \in TaskIds : fut[t].pc \notin {"none", "queued", "done"}}

\* The variables of the finer views of single components.
auxVars == <<lists, thr, call, current_delay, stats_mutex, discovery, requests>>

inVars == <<tasks, content, auxVars>>
envVars == <<tasks, content, faults, auxVars>>
orchVars == <<opc, batch, completed, collected, events, finalStats>>
flagVars == <<paused, cancelled, cancelIn>>

\* ---- FourChanScraper helpers (core/scraper.py) ----

\* _mark_download_cancelled: the partial file, when a path is given, is removed.
mark_download_cancelled(d, p) ==
    IF d[p].exists THEN [d EXCEPT ![p] = Absent] ELSE d

\* _build_resume_headers: existing_size; a Range header is sent iff it is > 0.
build_resume_headers(file) ==
    IF file.exists THEN Len(file.data) ELSE 0

\* _handle_download_retry: TRUE when another attempt is to be made.
handle_download_retry(attempt) ==
    attempt # MAX_RETRIES - 1

\* _check_existing_file's first test: the destination holds a nonempty file.
ExistingNonzero(t) ==
    disk[Path(t)].exists /\ Len(disk[Path(t)].data) > 0

\* The attempt index of the loop iteration a frame is about to run.
NextAttempt(f) == IF f.pc = "backoff" THEN f.attempt + 1 ELSE f.attempt

\* The except clause of download_file: _handle_download_retry, and on the last
\* attempt _record_failed_download.
Raise(t, attempt, err) ==
    LET f == fut[t] IN
    IF handle_download_retry(attempt)
    THEN /\ fut' = [fut EXCEPT ![t] = [f EXCEPT !.pc = "backoff", !.attempt = attempt,
                                                !.body = <<>>, !.chunk = 0]]
         /\ UNCHANGED <<stats, download_queue>>
    ELSE /\ stats' = [stats EXCEPT !.failed = @ + 1]
         /\ download_queue' = fail_download(download_queue, Url(t), err)
         /\ fut' = [fut EXCEPT ![t] = [Returned(f, "false", err)
                                         EXCEPT !.attempt = attempt]]

\* A cancelled frame that returns False and leaves the queue as it is.
ReturnCancelledUnrecorded(t, q) ==
    /\ download_queue' = q
    /\ fut' = [fut EXCEPT ![t] = Returned(@, "false", "Cancelled")]

\* A frame that returns False through _mark_download_cancelled.
ReturnCancelled(t, q) ==
    /\ download_queue' = fail_download(q, Url(t), "Cancelled")
    /\ fut' = [fut EXCEPT ![t] = Returned(@, "false", "Cancelled")]

\* A fault of the network, the disk or hashing happens: the budget of the run.
Inject ==
    /\ faults < MaxFaults
    /\ faults' = faults + 1

\* ---- download_file (core/scraper.py:561-653), one pool thread per task ----

\* A pool thread takes the next submitted call: start_download, then the
\* pre-transfer _ensure_active_download up to its first reading of the flags.
Begin(t) ==
    /\ fut[t].pc = "queued"
    /\ \A s \in 1..(t - 1) : fut[s].pc # "queued"
    /\ Cardinality(Running) < MAX_WORKERS
    /\ LET q == start_download(download_queue, Url(t)) IN
       IF cancelled
       THEN ReturnCancelled(t, q)
       ELSE /\ download_queue' = q
            /\ fut' = [fut EXCEPT ![t].pc = IF paused THEN "gate_sleep" ELSE "attempt"]
    /\ net' = [net EXCEPT ![t].found = IF disk[Path(t)].exists
                                       THEN Len(disk[Path(t)].data) ELSE -1]
    /\ UNCHANGED <<envVars, orchVars, flagVars, disk, stats, downloaded_hashes>>

\* A pause loop at the gate that sleeps without reading the cancel flag.
GateSleepIgnoresCancel(t) ==
    /\ fut[t].pc = "gate_sleep"
    /\ fut' = [fut EXCEPT ![t].pc = "gate_while"]
    /\ UNCHANGED <<envVars, orchVars, flagVars, disk, stats, downloaded_hashes,
                   download_queue, net>>

\* `time.sleep(0.1); if self.cancelled:` inside the gate's pause loop.
GateSleep(t) ==
    /\ fut[t].pc = "gate_sleep"
    /\ IF cancelled
       THEN ReturnCancelled(t, download_queue)
       ELSE /\ fut' = [fut EXCEPT ![t].pc = "gate_while"]
            /\ UNCHANGED download_queue
    /\ UNCHANGED <<envVars, orchVars, flagVars, disk, stats, downloaded_hashes, net>>

\* A gate that sleeps once, `if self.paused:`, and then lets the transfer go on.
GateWhileOnce(t) ==
    /\ fut[t].pc = "gate_while"
    /\ fut' = [fut EXCEPT ![t].pc = "attempt"]
    /\ UNCHANGED <<envVars, orchVars, flagVars, disk, stats, downloaded_hashes,
                   download_queue, net>>

\* `while self.paused:` of the gate's pause loop, read again after the sleep.
GateWhile(t) ==
    /\ fut[t].pc = "gate_while"
    /\ fut' = [fut EXCEPT ![t].pc = IF paused THEN "gate_sleep" ELSE "attempt"]
    /\ UNCHANGED <<envVars, orchVars, flagVars, disk, stats, downloaded_hashes,
                   download_queue, net>>

\* _handle_download_response and open(file_path, mode): the file after the
\* destination was opened for a response with this status.
\* A status other than 206 and 200 gets here only when raise_for_status
\* has not raised; the mode is then "wb" as well.
handle_download_response(status, file) ==
    IF status = 206
    THEN (IF file.exists THEN file ELSE File(<<>>))    \* mode "ab"
    ELSE File(<<>>)                                    \* 200: unlink, mode "wb"

\* Response.raise_for_status raises HTTPError for the statuses 400 to 599.
raise_for_status(status) == status >= 400 /\ status < 600

\* The body the host sends for a request of url u from chunk offset `from`.
ResponseBody(u, from) == SubSeq(RemoteBody(u), from + 1, RemoteSize)

\* What the media host may answer to the GET of one attempt:
\*   "ok"     200 with the content, or 206 with the rest when a Range was sent;
\*   "full"   200 with the content although a Range was sent;
\*   "empty"  200 with an empty body;
\*   "error"  session.get raises, or a status that raise_for_status raises on
\*            (among them 416 for a range starting at or after the end);
\*   "other"  a status below 400 that is neither 200 nor 206, with no body.
Status(resp, existing_size) ==
    IF resp = "ok" /\ existing_size > 0 THEN 206
    ELSE IF resp = "other" THEN 204 ELSE 200

Body(t, resp, existing_size) ==
    CASE resp = "ok" -> ResponseBody(Url(t), existing_size)
      [] resp = "full" -> ResponseBody(Url(t), 0)
      [] OTHER -> <<>>

\* One loop iteration up to the opening of the destination file:
\* _prepare_download_path, _check_existing_file, check_disk_space,
\* _build_resume_headers, session.get, _handle_download_response, open.
\* hashRaises: calculate_hash of the existing file raises OSError;
\* diskOk: check_disk_space's answer; resp: the host's answer.
AttemptStep(t, hashRaises, diskOk, resp) ==
    LET f == fut[t]
        file == disk[Path(t)]
        h == calculate_hash(file)
        att == NextAttempt(f)
        existing_size == build_resume_headers(file)
    IN
    /\ f.pc \in {"attempt", "backoff"}
    /\ IF ExistingNonzero(t) /\ ~hashRaises
       THEN /\ IF h \in downloaded_hashes
               THEN /\ stats' = [stats EXCEPT !.duplicates = @ + 1]
                    /\ UNCHANGED downloaded_hashes
               ELSE /\ stats' = [stats EXCEPT !.skipped = @ + 1]
                    /\ downloaded_hashes' = downloaded_hashes \cup {h}
            /\ download_queue' = complete_download(download_queue, Url(t))
            /\ fut' = [fut EXCEPT ![t] = [Returned(f, "true", "") EXCEPT !.attempt = att]]
            /\ UNCHANGED disk
            /\ UNCHANGED net
       ELSE IF ~diskOk
       THEN /\ stats' = [stats EXCEPT !.failed = @ + 1]
            /\ download_queue' = fail_download(download_queue, Url(t),
                                               "Insufficient disk space")
            /\ fut' = [fut EXCEPT ![t] =
                         [Returned(f, "false", "Insufficient disk space")
                            EXCEPT !.attempt = att]]
            /\ UNCHANGED <<downloaded_hashes, disk, net>>
       ELSE IF resp = "error" \/ (existing_size >= RemoteSize /\ resp = "ok")
       THEN /\ net' = [net EXCEPT ![t].gets = @ + 1]
            /\ Raise(t, att, "HTTPError")
            /\ UNCHANGED <<downloaded_hashes, disk>>
       ELSE /\ disk' = [disk EXCEPT ![Path(t)] =
                          handle_download_response(Status(resp, existing_size), @)]
            /\ fut' = [fut EXCEPT ![t] =
                         [f EXCEPT !.pc = "stream", !.attempt = att,
                                   !.body = Body(t, resp, existing_size)]]
            /\ net' = [net EXCEPT ![t].gets = @ + 1]
            /\ UNCHANGED <<stats, downloaded_hashes, download_queue>>
    /\ UNCHANGED <<inVars, orchVars, flagVars>>

\* The iteration with no fault: hashing works, the disk has room, the host
\* answers 200, or 206 to a Range.
Attempt(t) ==
    /\ AttemptStep(t, FALSE, TRUE, "ok")
    /\ UNCHANGED faults

\* calculate_hash of the existing destination file raises OSError.
AttemptHashError(t) ==
    /\ fut[t].pc \in {"attempt", "backoff"}
    /\ Inject
    /\ ExistingNonzero(t)
    /\ \E diskOk \in BOOLEAN, resp \in {"ok", "full", "empty", "error"} :
          AttemptStep(t, TRUE, diskOk, resp)

\* check_disk_space (core/scraper.py:375-385) with a download_dir set and
\* disk_usage answering: strictly more than the minimum plus the requirement.
check_disk_space(free_space_mb, required_mb) ==
    free_space_mb > MIN_FREE_SPACE_MB + required_mb

\* The free space, in MB, a full disk may report.
LowFreeSpace == {0, MIN_FREE_SPACE_MB - 1, MIN_FREE_SPACE_MB}

\* A disk-space gate that hands its failure to the retry handler.
AttemptDiskFullRetries(t) ==
    /\ fut[t].pc \in {"attempt", "backoff"}
    /\ Inject
    /\ ~ExistingNonzero(t)
    /\ Raise(t, NextAttempt(fut[t]), "Insufficient disk space")
    /\ UNCHANGED <<inVars, orchVars, flagVars, downloaded_hashes, disk, net>>

\* check_disk_space finds no more than the minimum free.
AttemptDiskFull(t) ==
    /\ fut[t].pc \in {"attempt", "backoff"}
    /\ Inject
    /\ ~ExistingNonzero(t)
    /\ \E free_space_mb \in LowFreeSpace :
          AttemptStep(t, FALSE, check_disk_space(free_space_mb, 0), "ok")

\* The host answers something else than the content asked for.
AttemptBadResponse(t) ==
    /\ fut[t].pc \in {"attempt", "backoff"}
    /\ Inject
    /\ ~ExistingNonzero(t)
    /\ \E resp \in {"full", "empty", "error", "other"} :
          /\ resp = "full" => disk[Path(t)].exists
          /\ AttemptStep(t, FALSE, TRUE, resp)

\* ---- the streamed write (core/scraper.py:610-627) ----

\* f.write(chunk)
Written(d, p, chunk) == [d EXCEPT ![p] = File(Append(@.data, chunk))]

\* iter_content yields the next chunk; the in-loop
\* _ensure_active_download(url, file_path) up to its first reading of the
\* flags; when active, f.write(chunk).
NextChunk(t) ==
    /\ fut[t].pc = "stream"
    /\ fut[t].body # <<>>
    /\ net' = [net EXCEPT ![t].wire = @ + 1]
    /\ IF cancelled
       THEN /\ disk' = mark_download_cancelled(disk, Path(t))
            /\ ReturnCancelled(t, download_queue)
       ELSE IF paused
       THEN /\ fut' = [fut EXCEPT ![t].pc = "chunk_sleep",
                                  ![t].chunk = Head(fut[t].body),
                                  ![t].body = Tail(fut[t].body)]
            /\ UNCHANGED <<disk, download_queue>>
       ELSE /\ disk' = Written(disk, Path(t), Head(fut[t].body))
            /\ fut' = [fut EXCEPT ![t].body = Tail(fut[t].body)]
            /\ UNCHANGED download_queue
    /\ UNCHANGED <<envVars, orchVars, flagVars, stats, downloaded_hashes>>

\* `time.sleep(0.1); if self.cancelled:` inside the in-loop pause loop.
ChunkSleep(t) ==
    /\ fut[t].pc = "chunk_sleep"
    /\ IF cancelled
       THEN /\ disk' = mark_download_cancelled(disk, Path(t))
            /\ ReturnCancelled(t, download_queue)
       ELSE /\ fut' = [fut EXCEPT ![t].pc = "chunk_while"]
            /\ UNCHANGED <<disk, download_queue>>
    /\ UNCHANGED <<envVars, orchVars, flagVars, stats, downloaded_hashes, net>>

\* The pause loop ends and the chunk it held is not written.
ChunkWhileDropsChunk(t) ==
    /\ fut[t].pc = "chunk_while"
    /\ fut' = [fut EXCEPT ![t].pc = IF paused THEN "chunk_sleep" ELSE "stream",
                           ![t].chunk = IF paused THEN @ ELSE 0]
    /\ UNCHANGED <<envVars, orchVars, flagVars, stats, downloaded_hashes,
                   download_queue, net, disk>>

\* `while self.paused:` read again after the sleep; when not paused the
\* chunk is written.
ChunkWhile(t) ==
    /\ fut[t].pc = "chunk_while"
    /\ IF paused
       THEN /\ fut' = [fut EXCEPT ![t].pc = "chunk_sleep"]
            /\ UNCHANGED disk
       ELSE /\ disk' = Written(disk, Path(t), fut[t].chunk)
            /\ fut' = [fut EXCEPT ![t].pc = "stream", ![t].chunk = 0]
    /\ UNCHANGED <<envVars, orchVars, flagVars, stats, downloaded_hashes,
                   download_queue, net>>

\* iter_content raises (the connection drops) before the next chunk.
StreamError(t) ==
    /\ Inject
    /\ fut[t].pc = "stream"
    /\ Raise(t, fut[t].attempt, "ConnectionError")
    /\ UNCHANGED <<inVars, orchVars, flagVars, disk, downloaded_hashes, net>>

\* ---- after the loop (core/scraper.py:629-644) ----

\* The body is exhausted: the zero-byte test, the hash, the counters, the queue.
\* hashRaises: calculate_hash of the written file raises.
FinishStep(t, hashRaises) ==
    LET file == disk[Path(t)] IN
    /\ fut[t].pc = "stream"
    /\ fut[t].body = <<>>
    /\ IF Len(file.data) = 0
       THEN /\ disk' = [disk EXCEPT ![Path(t)] = Absent]
            /\ Raise(t, fut[t].attempt, "Downloaded file is empty")
            /\ UNCHANGED downloaded_hashes
       ELSE /\ downloaded_hashes' = IF hashRaises THEN downloaded_hashes
                                    ELSE downloaded_hashes \cup {calculate_hash(file)}
            /\ stats' = [stats EXCEPT !.downloaded = @ + 1]
            /\ download_queue' = complete_download(download_queue, Url(t))
            /\ fut' = [fut EXCEPT ![t] = Returned(@, "true", "")]
            /\ UNCHANGED disk
    /\ UNCHANGED <<inVars, orchVars, flagVars, net>>

Finish(t) ==
    /\ FinishStep(t, FALSE)
    /\ UNCHANGED faults

\* A hash failure after the stream that is handed to the retry handler.
FinishHashErrorRaises(t) ==
    /\ fut[t].pc = "stream"
    /\ fut[t].body = <<>>
    /\ Inject
    /\ Len(disk[Path(t)].data) > 0
    /\ Raise(t, fut[t].attempt, "OSError")
    /\ UNCHANGED <<inVars, orchVars, flagVars, net, disk, downloaded_hashes>>

FinishHashError(t) ==
    /\ fut[t].pc = "stream"
    /\ Inject
    /\ Len(disk[Path(t)].data) > 0
    /\ FinishStep(t, TRUE)

\* ---- MultiUrlDownloadWorker.run (gui/workers.py:159-309) ----

Ev(e, n) == [e |-> e, n |-> n]

\* The early return when no file was found (workers.py:224-227).
OnNoMedia(ev) == ev \o <<Ev("nomedia", 0), Ev("finished", 0)>>

\* An except clause that logs the error and emits nothing else.
OnExceptionSilent(ev) == Append(ev, Ev("error", 0))

\* The except clause of run (workers.py:305-309).
OnException(ev) == ev \o <<Ev("error", 0), Ev("finished", 0)>>

\* The final statistics (workers.py:289-303).
OnComplete(ev) == ev \o <<Ev("complete", 0), Ev("finished", 0)>>

\* main_window.start_download builds a new worker around the one scraper.
StartBatch ==
    /\ opc = "idle"
    /\ batch < MaxBatches
    /\ batch' = batch + 1
    /\ opc' = "discover"
    /\ completed' = 0
    /\ collected' = {}
    /\ events' = <<>>
    /\ fut' = [t \in TaskIds |-> NoFrame]
    /\ net' = [t \in TaskIds |-> NoTraffic]
    /\ cancelIn' = FALSE
    /\ UNCHANGED <<envVars, paused, cancelled, disk, stats, downloaded_hashes,
                   download_queue, finalStats>>

\* The first pass found the descriptors: every download is submitted.
DiscoverFound ==
    /\ opc = "discover"
    /\ stats' = [stats EXCEPT !.total = Len(tasks)]
    /\ events' = events \o <<Ev("found", Len(tasks)), Ev("start", Len(tasks))>>
    /\ fut' = [t \in TaskIds |-> IF Live(t) THEN [NoFrame EXCEPT !.pc = "queued"]
                                 ELSE NoFrame]
    /\ opc' = "collect"
    /\ UNCHANGED <<envVars, flagVars, disk, downloaded_hashes, download_queue,
                   net, batch, completed, collected, finalStats>>

\* The first pass found nothing (every index fetch came back empty).
DiscoverEmpty ==
    /\ opc = "discover"
    /\ events' = OnNoMedia(events)
    /\ finalStats' = stats
    /\ opc' = "idle"
    /\ UNCHANGED <<envVars, flagVars, disk, stats, downloaded_hashes,
                   download_queue, fut, net, batch, completed, collected>>

\* The first pass raises.
DiscoverRaise ==
    /\ opc = "discover"
    /\ events' = OnException(events)
    /\ finalStats' = stats
    /\ opc' = "idle"
    /\ UNCHANGED <<envVars, flagVars, disk, stats, downloaded_hashes,
                   download_queue, fut, net, batch, completed, collected>>

\* as_completed hands over a finished future (workers.py:250-287).
Collect(t) ==
    /\ opc = "collect"
    /\ fut[t].pc = "done"
    /\ t \notin collected
    /\ IF cancelled
       THEN /\ events' = Append(events, Ev("cancel", 0))
            /\ opc' = "drain"
            /\ UNCHANGED <<completed, collected>>
       ELSE /\ completed' = completed + 1
            /\ collected' = collected \cup {t}
            /\ events' = Append(events, Ev("progress", completed + 1))
            /\ opc' = IF collected' = {s \in TaskIds : Live(s)}
                      THEN "drain" ELSE "collect"
    /\ UNCHANGED <<envVars, flagVars, disk, stats, downloaded_hashes,
                   download_queue, fut, net, batch, finalStats>>

\* The executor's with-block exits once every submitted call has returned;
\* then the final statistics are emitted.
FinishRun ==
    /\ opc = "drain"
    /\ \A t \in TaskIds : Live(t) => fut[t].pc = "done"
    /\ events' = OnComplete(events)
    /\ finalStats' = stats
    /\ opc' = "idle"
    /\ UNCHANGED <<envVars, flagVars, disk, stats, downloaded_hashes,
                   download_queue, fut, net, batch, completed, collected>>

\* ---- pause / resume / cancel (core/scraper.py:655-663) ----

pause_downloads ==
    /\ opc # "idle"
    /\ ~paused
    /\ paused' = TRUE
    /\ UNCHANGED <<envVars, orchVars, disk, stats, downloaded_hashes,
                   download_queue, fut, net, cancelled, cancelIn>>

resume_downloads ==
    /\ opc # "idle"
    /\ paused
    /\ paused' = FALSE
    /\ UNCHANGED <<envVars, orchVars, disk, stats, downloaded_hashes,
                   download_queue, fut, net, cancelled, cancelIn>>

cancel_downloads ==
    /\ opc # "idle"
    /\ ~cancelled
    /\ cancelled' = TRUE
    /\ paused' = FALSE
    /\ cancelIn' = (opc \in {"discover", "collect"})
    /\ UNCHANGED <<envVars, orchVars, disk, stats, downloaded_hashes,
                   download_queue, fut, net>>

\* ---- the queue calls of download_file, list operation by list operation
\* ---- (core/models.py:33-63 as called from core/scraper.py:561-653) ----

Threads == 1..MAX_WORKERS

engineVars == <<tasks, content, disk, stats, downloaded_hashes, paused,
                cancelled, download_queue, fut, net, opc, batch, completed,
                collected, events, finalStats, faults, cancelIn>>

NoLists ==
    [queue |-> <<>>, active_downloads |-> <<>>, completed |-> <<>>,
     failed |-> <<>>, history |-> <<>>]

\* The frame of a download_file call: the url, the queue call it is in (op),
\* whether that call is inside the try block of the retry loop (guarded),
\* what the last `in` test saw, the attempt, and how the call ended.
NoCall ==
    [pc |-> "idle", url |-> 0, op |-> "none", guarded |-> FALSE, seen |-> FALSE,
     attempt |-> 0, result |-> "none"]

\* `x in l`
In(l, x) == \E i \in 1..Len(l) : l[i] = x

\* l.remove(x) for an x that is in l: the first occurrence goes.
Remove(l, x) ==
    LET i == CHOOSE k \in 1..Len(l) : l[k] = x /\ \A j \in 1..(k - 1) : l[j] # x
    IN SubSeq(l, 1, i - 1) \o SubSeq(l, i + 1, Len(l))

\* The list a queue call appends to.
Target(op) == IF op = "complete" THEN "completed" ELSE "failed"

RaceFrame == UNCHANGED <<engineVars, call, current_delay, stats_mutex,
                          discovery, requests>>

\* download_file is called: start_download's `if url not in
\* self.active_downloads` (the queue list is empty: add_url is never called).
StartCheck(w) ==
    /\ thr[w].pc = "start"
    /\ thr' = [thr EXCEPT ![w].seen = ~In(lists.active_downloads, thr[w].url),
                          ![w].pc = "start_append"]
    /\ UNCHANGED lists
    /\ RaceFrame

\* start_download's `self.active_downloads.append(url)`.
StartAppend(w) ==
    /\ thr[w].pc = "start_append"
    /\ lists' = IF thr[w].seen
                THEN [lists EXCEPT !.active_downloads = Append(@, thr[w].url)]
                ELSE lists
    /\ thr' = [thr EXCEPT ![w].pc = "gate"]
    /\ RaceFrame

\* The pre-transfer _ensure_active_download(url), outside the try block: when
\* it sees the cancel flag it calls fail_download.
Gate(w) ==
    /\ thr[w].pc = "gate"
    /\ \E sees_cancel \in BOOLEAN :
          thr' = [thr EXCEPT ![w].pc = IF sees_cancel THEN "op_check" ELSE "attempt",
                             ![w].op = IF sees_cancel THEN "fail" ELSE "none",
                             ![w].guarded = FALSE]
    /\ UNCHANGED lists
    /\ RaceFrame

\* One iteration of the retry loop, inside the try block: it ends in
\* complete_download (existing file or finished transfer), in the in-loop
\* cancellation (fail_download), or in an exception of the transfer.
AttemptBody(w) ==
    /\ thr[w].pc = "attempt"
    /\ \E o \in {"complete", "fail", "error"} :
          thr' = [thr EXCEPT ![w].pc = IF o = "error" THEN "except" ELSE "op_check",
                             ![w].op = IF o = "error" THEN "none" ELSE o,
                             ![w].guarded = TRUE]
    /\ UNCHANGED lists
    /\ RaceFrame

\* `except Exception`: _handle_download_retry; on the last attempt
\* _record_failed_download calls fail_download from inside the handler.
Except(w) ==
    /\ thr[w].pc = "except"
    /\ thr' = IF handle_download_retry(thr[w].attempt)
              THEN [thr EXCEPT ![w].pc = "attempt", ![w].attempt = @ + 1]
              ELSE [thr EXCEPT ![w].pc = "op_check", ![w].op = "fail",
                               ![w].guarded = FALSE]
    /\ UNCHANGED lists
    /\ RaceFrame

\* complete_download / fail_download: `if url in self.active_downloads`.
OpCheck(w) ==
    /\ thr[w].pc = "op_check"
    /\ thr' = [thr EXCEPT ![w].seen = In(lists.active_downloads, thr[w].url),
                          ![w].pc = "op_remove"]
    /\ UNCHANGED lists
    /\ RaceFrame

\* `self.active_downloads.remove(url)`: ValueError when the url is no longer
\* in the list. Inside the try block the error goes to the except clause;
\* outside it leaves download_file.
OpRemove(w) ==
    /\ thr[w].pc = "op_remove"
    /\ IF ~thr[w].seen
       THEN /\ thr' = [thr EXCEPT ![w].pc = "op_check_target"]
            /\ UNCHANGED lists
       ELSE IF In(lists.active_downloads, thr[w].url)
       THEN /\ lists' = [lists EXCEPT !.active_downloads = Remove(@, thr[w].url)]
            /\ thr' = [thr EXCEPT ![w].pc = "op_check_target"]
       ELSE /\ thr' = IF thr[w].guarded
                      THEN [thr EXCEPT ![w].pc = "except", ![w].op = "none"]
                      ELSE [thr EXCEPT ![w].pc = "done", ![w].result = "raised"]
            /\ UNCHANGED lists
    /\ RaceFrame

\* `if url not in self.completed` / `if url not in self.failed`.
OpCheckTarget(w) ==
    /\ thr[w].pc = "op_check_target"
    /\ thr' = [thr EXCEPT ![w].seen = ~In(lists[Target(thr[w].op)], thr[w].url),
                          ![w].pc = "op_append"]
    /\ UNCHANGED lists
    /\ RaceFrame

\* The appends to the target list and to the history; download_file returns.
OpAppend(w) ==
    /\ thr[w].pc = "op_append"
    /\ lists' = IF thr[w].seen
                THEN [lists EXCEPT
                        ![Target(thr[w].op)] = Append(@, thr[w].url),
                        !.history = Append(@, [url |-> thr[w].url,
                                               status |-> Target(thr[w].op)])]
                ELSE lists
    /\ thr' = [thr EXCEPT ![w].pc = "done",
                          ![w].result = IF thr[w].op = "complete" THEN "true"
                                        ELSE "false"]
    /\ RaceFrame

\* ---- the DownloadQueue called twice (core/models.py:21-63) ----

\* The methods on the lists, each a whole call.
add_url(l, url) ==
    IF ~In(l.queue, url) /\ ~In(l.active_downloads, url)
    THEN [l EXCEPT !.queue = Append(@, url)]
    ELSE l

start_download_lists(l, url) ==
    LET removed == IF In(l.queue, url)
                   THEN [l EXCEPT !.queue = Remove(@, url)] ELSE l
    IN IF ~In(removed.active_downloads, url)
       THEN [removed EXCEPT !.active_downloads = Append(@, url)]
       ELSE removed

complete_download_lists(l, url) ==
    LET removed == IF In(l.active_downloads, url)
                   THEN [l EXCEPT !.active_downloads = Remove(@, url)] ELSE l
    IN IF ~In(removed.completed, url)
       THEN [removed EXCEPT
               !.completed = Append(@, url),
               !.history = Append(@, [url |-> url, status |-> "completed"])]
       ELSE removed

fail_download_lists(l, url, error) ==
    LET removed == IF In(l.active_downloads, url)
                   THEN [l EXCEPT !.active_downloads = Remove(@, url)] ELSE l
    IN IF ~In(removed.failed, url)
       THEN [removed EXCEPT
               !.failed = Append(@, url),
               !.history = Append(@, [url |-> url, status |-> "failed",
                                      error |-> error])]
       ELSE removed

Method(fn, l, url) ==
    CASE fn = "add_url" -> add_url(l, url)
      [] fn = "start_download" -> start_download_lists(l, url)
      [] fn = "complete_download" -> complete_download_lists(l, url)
      [] fn = "fail_download" -> fail_download_lists(l, url, "None")

QueueFrame == UNCHANGED <<engineVars, thr, current_delay, stats_mutex,
                           discovery, requests>>

\* No method has been called once and not yet again.
NoPairOpen == IF call.fn = "none" THEN TRUE ELSE call.times = 2

\* A method is called; no call is made between a method's first call and
\* its second.
FirstCall(fn, url) ==
    /\ NoPairOpen
    /\ Len(lists.history) < MaxHistory
    /\ lists' = Method(fn, lists, url)
    /\ call' = [fn |-> fn, arg |-> url, ret |-> "None", times |-> 1]
    /\ QueueFrame

AddUrl(url) == FirstCall("add_url", url)

StartDownload(url) == FirstCall("start_download", url)

CompleteDownload(url) == FirstCall("complete_download", url)

FailDownload(url) == FirstCall("fail_download", url)

\* The same method is called again with the same url.
SecondCall ==
    /\ ~NoPairOpen
    /\ lists' = Method(call.fn, lists, call.arg)
    /\ call' = [call EXCEPT !.times = 2]
    /\ QueueFrame

\* A pool thread enters download_file, whose first statement is
\* start_download, taken apart as above.
ThreadStarts(w) ==
    /\ NoPairOpen
    /\ StartCheck(w) \/ StartAppend(w)

\* ---- the counters and the hash set under the mutex
\* ---- (core/scraper.py:101-132, 150-161, 196-203, 634-642; workers.py:229) ----

\* The frame of a pool thread in download_file, statement by statement where
\* the counters or the hash set are touched: `exists` tells whether its
\* destination holds a nonempty file, `c` is the content of that file and of
\* its url (and so the hash), `gets` counts its HTTP requests.
NoTransfer ==
    [pc |-> "none", exists |-> FALSE, c |-> 0, seen |-> FALSE, gets |-> 0,
     result |-> "none"]

LockFrame ==
    UNCHANGED <<tasks, content, disk, paused, cancelled, fut, net, opc, batch,
                completed, collected, events, finalStats, faults, cancelIn,
                lists, call, current_delay, discovery, requests>>

\* workers.py:229-244: run writes the total and submits the calls.
RunSubmits ==
    /\ \A w \in Threads : thr[w].pc = "none"
    /\ stats' = [stats EXCEPT !.total = MAX_WORKERS]
    /\ thr' = [w \in Threads |-> [thr[w] EXCEPT !.pc = "exists"]]
    /\ download_queue' = [download_queue EXCEPT !.active_downloads = Threads]
    /\ UNCHANGED <<downloaded_hashes, stats_mutex>>
    /\ LockFrame

\* _check_existing_file's first test (scraper.py:103).
CheckExists(w) ==
    /\ thr[w].pc = "exists"
    /\ thr' = [thr EXCEPT ![w].pc = IF thr[w].exists THEN "hash" ELSE "get"]
    /\ UNCHANGED <<stats, downloaded_hashes, download_queue, stats_mutex>>
    /\ LockFrame

\* calculate_hash of the existing file (scraper.py:107): it returns, or it
\* raises OSError and the download goes on.
HashExisting(w) ==
    /\ thr[w].pc = "hash"
    /\ \E raises \in BOOLEAN :
          thr' = [thr EXCEPT ![w].pc = IF raises THEN "get" ELSE "lock_test"]
    /\ UNCHANGED <<stats, downloaded_hashes, download_queue, stats_mutex>>
    /\ LockFrame

\* The statement after each lock() and after each unlock().
AfterLock(pc) ==
    CASE pc = "lock_test" -> "test"
      [] pc = "lock_skipped" -> "skipped"
      [] pc = "lock_downloaded" -> "downloaded"
      [] pc = "lock_failed" -> "failed"

AfterUnlock(pc) ==
    CASE pc = "unlock_duplicate" -> "done"
      [] pc = "unlock_added" -> "lock_skipped"
      [] pc = "unlock_skipped" -> "complete"
      [] pc = "unlock_downloaded" -> "complete"
      [] pc = "unlock_failed" -> "fail"

\* A lock() that lets the thread through without taking the mutex.
LockNotTaken(w) ==
    /\ thr[w].pc \in {"lock_test", "lock_skipped", "lock_downloaded", "lock_failed"}
    /\ thr' = [thr EXCEPT ![w].pc = AfterLock(@)]
    /\ UNCHANGED <<stats, downloaded_hashes, download_queue, stats_mutex>>
    /\ LockFrame

\* self.stats_mutex.lock(): the thread waits until the mutex is free.
Lock(w) ==
    /\ thr[w].pc \in {"lock_test", "lock_skipped", "lock_downloaded", "lock_failed"}
    /\ stats_mutex = 0
    /\ discovery = NoDiscovery
    /\ requests = <<>>
    /\ stats_mutex' = w
    /\ thr' = [thr EXCEPT ![w].pc = AfterLock(@)]
    /\ UNCHANGED <<stats, downloaded_hashes, download_queue>>
    /\ LockFrame

\* self.stats_mutex.unlock(); after the duplicate branch the function
\* returns True.
Unlock(w) ==
    /\ thr[w].pc \in {"unlock_duplicate", "unlock_added", "unlock_skipped",
                      "unlock_downloaded", "unlock_failed"}
    /\ stats_mutex' = 0
    /\ thr' = [thr EXCEPT ![w].pc = AfterUnlock(@),
                          ![w].result = IF thr[w].pc = "unlock_duplicate"
                                        THEN "true" ELSE @]
    /\ UNCHANGED <<stats, downloaded_hashes, download_queue>>
    /\ LockFrame

\* `if file_hash in self.downloaded_hashes` (scraper.py:112).
TestHash(w) ==
    /\ thr[w].pc = "test"
    /\ thr' = [thr EXCEPT ![w].seen = thr[w].c \in downloaded_hashes,
                          ![w].pc = IF thr[w].c \in downloaded_hashes
                                    THEN "duplicate" ELSE "add"]
    /\ UNCHANGED <<stats, downloaded_hashes, download_queue, stats_mutex>>
    /\ LockFrame

\* The duplicate branch (scraper.py:113-115).
CountDuplicate(w) ==
    /\ thr[w].pc = "duplicate"
    /\ stats' = [stats EXCEPT !.duplicates = @ + 1]
    /\ download_queue' = complete_download(download_queue, w)
    /\ thr' = [thr EXCEPT ![w].pc = "unlock_duplicate"]
    /\ UNCHANGED <<downloaded_hashes, stats_mutex>>
    /\ LockFrame

\* self.downloaded_hashes.add(file_hash) (scraper.py:116).
AddHash(w) ==
    /\ thr[w].pc = "add"
    /\ downloaded_hashes' = downloaded_hashes \cup {thr[w].c}
    /\ thr' = [thr EXCEPT ![w].pc = "unlock_added"]
    /\ UNCHANGED <<stats, download_queue, stats_mutex>>
    /\ LockFrame

\* self.stats["skipped"] += 1 (scraper.py:127), self.stats["downloaded"] += 1
\* (scraper.py:157), self.stats["failed"] += 1 (scraper.py:200).
Count(w) ==
    /\ thr[w].pc \in {"skipped", "downloaded", "failed"}
    /\ stats' = [stats EXCEPT ![thr[w].pc] = @ + 1]
    /\ thr' = [thr EXCEPT ![w].pc = CASE @ = "skipped" -> "unlock_skipped"
                                      [] @ = "downloaded" -> "unlock_downloaded"
                                      [] @ = "failed" -> "unlock_failed"]
    /\ UNCHANGED <<downloaded_hashes, download_queue, stats_mutex>>
    /\ LockFrame

\* session.get and the transfer (scraper.py:596-632): the file is written, or
\* the last attempt has failed.
Transfer(w) ==
    /\ thr[w].pc = "get"
    /\ \E ok \in BOOLEAN :
          thr' = [thr EXCEPT ![w].gets = @ + 1,
                             ![w].pc = IF ok THEN "fresh_hash" ELSE "lock_failed"]
    /\ UNCHANGED <<stats, downloaded_hashes, download_queue, stats_mutex>>
    /\ LockFrame

\* The hash of the file just written (scraper.py:634-640): added to the set,
\* unless calculate_hash raises.
HashFresh(w) ==
    /\ thr[w].pc = "fresh_hash"
    /\ \E raises \in BOOLEAN :
          downloaded_hashes' = IF raises THEN downloaded_hashes
                               ELSE downloaded_hashes \cup {thr[w].c}
    /\ thr' = [thr EXCEPT ![w].pc = "lock_downloaded"]
    /\ UNCHANGED <<stats, download_queue, stats_mutex>>
    /\ LockFrame

\* complete_download and `return True` (scraper.py:131-132, 643-644).
CompleteReturn(w) ==
    /\ thr[w].pc = "complete"
    /\ download_queue' = complete_download(download_queue, w)
    /\ thr' = [thr EXCEPT ![w].pc = "done", ![w].result = "true"]
    /\ UNCHANGED <<stats, downloaded_hashes, stats_mutex>>
    /\ LockFrame

\* fail_download of _record_failed_download and `return False`
\* (scraper.py:203, 223, 648).
FailReturn(w) ==
    /\ thr[w].pc = "fail"
    /\ download_queue' = fail_download(download_queue, w, "HTTPError")
    /\ thr' = [thr EXCEPT ![w].pc = "done", ![w].result = "false"]
    /\ UNCHANGED <<stats, downloaded_hashes, stats_mutex>>
    /\ LockFrame

\* ---- adaptive_delay and the 429 penalty (core/scraper.py:228-268) ----

\* The delay is counted in whole milliseconds; a product or a quotient is
\* rounded down.
BACKOFF_MULTIPLIER == [num |-> 3, den |-> 2]

max(a, b) == IF a >= b THEN a ELSE b

min(a, b) == IF a <= b THEN a ELSE b

\* max(Config.BASE_DELAY, self.current_delay / 1.1)
after_success(delay) == max(BASE_DELAY, (delay * 10) \div 11)

\* min(Config.MAX_DELAY, self.current_delay * Config.BACKOFF_MULTIPLIER)
after_failure(delay) ==
    min(MAX_DELAY, (delay * BACKOFF_MULTIPLIER.num) \div BACKOFF_MULTIPLIER.den)

\* The penalty without its upper bound.
double_delay(delay) == delay * 2

\* min(Config.MAX_DELAY, self.current_delay * 2)
rate_limited(delay) == min(MAX_DELAY, delay * 2)

\* A thread between two updates of the delay.
NoUpdate == [pc |-> "idle", value |-> 0, slept |-> 0, calls |-> 0]

DelayFrame == UNCHANGED <<engineVars, lists, call, stats_mutex,
                           discovery, requests>>

DelayCalls == thr[1].calls + thr[2].calls

\* An update reads the attribute and computes the new value; the assignment
\* is a step of its own, and other threads may run in between.
Compute(w, value) ==
    /\ thr[w].pc = "idle"
    /\ DelayCalls < MaxDelayCalls
    /\ thr' = [thr EXCEPT ![w].pc = "assign", ![w].value = value,
                          ![w].calls = @ + 1]
    /\ UNCHANGED current_delay
    /\ DelayFrame

\* adaptive_delay(success=True): the gate before a request, and the update
\* after a response.
AdaptiveDelaySuccess(w) == Compute(w, after_success(current_delay))

\* adaptive_delay(success=False)
AdaptiveDelayFailure(w) == Compute(w, after_failure(current_delay))

\* handle_network_error on an HTTPError with status 429
RateLimited(w) == Compute(w, rate_limited(current_delay))

\* self.current_delay = <the value computed>
AssignDelay(w) ==
    /\ thr[w].pc = "assign"
    /\ current_delay' = thr[w].value
    /\ thr' = [thr EXCEPT ![w].pc = "sleep"]
    /\ DelayFrame

\* time.sleep(self.current_delay)
SleepDelay(w) ==
    /\ thr[w].pc = "sleep"
    /\ thr' = [thr EXCEPT ![w].pc = "idle", ![w].slept = current_delay]
    /\ UNCHANGED current_delay
    /\ DelayFrame

\* ---- the engine's functions, each called on its own ----

NoFunction == [fn |-> "none", arg |-> <<>>, ret |-> <<>>]

\* The call has not returned yet.
Pending == [type |-> "pending"]

PureFrame == UNCHANGED <<engineVars, lists, thr, current_delay, stats_mutex,
                          discovery, requests>>

\* Seqs(S, n): the sequences over S of length at most n.
Seqs(S, n) == UNION {[1..k -> S] : k \in 0..n}

\* ---- parse_url (core/scraper.py:387-412) ----

\* A string is a sequence of pieces, each standing for the characters it
\* spells: "http", "Http", "s", ":", "/", ".", "#", "4chan.org", a name of
\* lower-case letters "x", the words "thread" and "catalog", a run of
\* digits "7". No piece has whitespace, so url.strip() changes no input.

\* str.lower of one piece.
lower_piece(a) == IF a = "Http" THEN "http" ELSE a

\* str.lower
lower(str) == [i \in 1..Len(str) |-> lower_piece(str[i])]

\* url.startswith("http")
startswith_http(str) == Len(str) >= 1 /\ str[1] \in {"http"}

\* The position of the first piece of str that is in set, or 0.
Find(str, set) ==
    IF \E i \in 1..Len(str) : str[i] \in set
    THEN CHOOSE i \in 1..Len(str) :
            str[i] \in set /\ \A j \in 1..(i - 1) : str[j] \notin set
    ELSE 0

\* The pieces urlsplit takes for a scheme: a letter first, then letters,
\* digits, "+", "-" and ".".
IsScheme(str) ==
    /\ Len(str) >= 1
    /\ str[1] \in {"http", "Http", "s", "x", "thread", "catalog"}
    /\ \A i \in 1..Len(str) : str[i] \notin {":", "/", "#"}

\* urllib.parse.urlparse: scheme before the first ":", the netloc after
\* "//" up to the next "/" or "#", the fragment after the first "#", the
\* path in between.
urlparse(url) ==
    LET colon == Find(url, {":"})
        hasScheme == colon > 1 /\ IsScheme(SubSeq(url, 1, colon - 1))
        rest == IF hasScheme THEN SubSeq(url, colon + 1, Len(url)) ELSE url
        hasNetloc == Len(rest) >= 2 /\ rest[1] = "/" /\ rest[2] = "/"
        after == IF hasNetloc THEN SubSeq(rest, 3, Len(rest)) ELSE rest
        stop == Find(after, {"/", "#"})
        netloc == IF ~hasNetloc THEN <<>>
                  ELSE IF stop = 0 THEN after ELSE SubSeq(after, 1, stop - 1)
        tail == IF ~hasNetloc THEN rest
                ELSE IF stop = 0 THEN <<>> ELSE SubSeq(after, stop, Len(after))
        hash == Find(tail, {"#"})
    IN [scheme |-> IF hasScheme THEN lower(SubSeq(url, 1, colon - 1)) ELSE <<>>,
        netloc |-> netloc,
        path |-> IF hash = 0 THEN tail ELSE SubSeq(tail, 1, hash - 1),
        fragment |-> IF hash = 0 THEN <<>> ELSE SubSeq(tail, hash + 1, Len(tail))]

\* parsed.hostname: the netloc up to its first ":", in lower case ("" for
\* None).
hostname(netloc) ==
    LET colon == Find(netloc, {":"})
    IN lower(IF colon = 0 THEN netloc ELSE SubSeq(netloc, 1, colon - 1))

\* hostname == "4chan.org" or hostname.endswith(".4chan.org")
HostAccepted(h) ==
    \/ h = <<"4chan.org">>
    \/ Len(h) >= 2 /\ h[Len(h) - 1] = "." /\ h[Len(h)] = "4chan.org"

\* [p for p in path.split("/") if p]
RECURSIVE path_parts(_)
path_parts(path) ==
    IF path = <<>> THEN <<>>
    ELSE LET slash == Find(path, {"/"})
         IN IF slash = 0 THEN <<path>>
            ELSE IF slash = 1 THEN path_parts(Tail(path))
            ELSE <<SubSeq(path, 1, slash - 1)>>
                 \o path_parts(SubSeq(path, slash + 1, Len(path)))

\* str.isdigit
isdigit(str) == Len(str) >= 1 /\ \A i \in 1..Len(str) : str[i] = "7"

\* s.split("#")[0]
before_hash(str) ==
    LET hash == Find(str, {"#"})
    IN IF hash = 0 THEN str ELSE SubSeq(str, 1, hash - 1)

\* The value None, for thread_id and for the whole result.
NoneId == <<"None">>
NoLocator == [board |-> <<>>, type |-> "None", thread_id |-> NoneId]

parse_url(input) ==
    LET url == IF startswith_http(input)
               THEN input
               ELSE <<"http", "s", ":", "/", "/">> \o input
        parsed == urlparse(url)
        parts == path_parts(parsed.path)
        result == [board |-> parts[1], type |-> "board", thread_id |-> NoneId]
    IN IF ~HostAccepted(hostname(parsed.netloc)) THEN NoLocator
       ELSE IF parts = <<>> THEN NoLocator
       ELSE IF Len(parts) >= 3 /\ parts[2] = <<"thread">>
       THEN (IF isdigit(before_hash(parts[3]))
             THEN [result EXCEPT !.type = "thread",
                                 !.thread_id = before_hash(parts[3])]
             ELSE result)
       ELSE IF Len(parts) >= 2 /\ parts[2] = <<"catalog">>
       THEN [result EXCEPT !.type = "catalog"]
       ELSE result

\* ---- _handle_download_response and open (core/scraper.py:134-148, 610) ----

\* The mode and the total size (scraper.py:139, 143, 148).
response_mode(status) == IF status = 206 THEN "ab" ELSE "wb"

total_size(status, content_length, existing_size) ==
    IF status = 206 THEN content_length + existing_size
    ELSE IF status = 200 THEN content_length ELSE 0

\* The statuses of the responses, the files at the destination and the
\* content-length headers given to _handle_download_response.
Statuses == {200, 204, 206, 304, 404, 416, 500}

ResponseInputs ==
    [status : Statuses,
     file : {Absent} \cup {File(SubSeq(<<Chunk(1, 1), Chunk(1, 2)>>, 1, k)) : k \in 0..2},
     content_length : 0..MaxContentLength]

\* The call, and the open(file_path, mode) that follows when it returns.
HandleDownloadResponse ==
    /\ call.fn = "_handle_download_response"
    /\ call.ret = Pending
    /\ LET status == call.arg.status
           file == call.arg.file
       IN call' = [call EXCEPT !.ret =
                     IF status \notin {206, 200} /\ raise_for_status(status)
                     THEN [type |-> "raised", error |-> "HTTPError", file |-> file]
                     ELSE [type |-> "tuple",
                           mode |-> response_mode(status),
                           total_size |-> total_size(status, call.arg.content_length,
                                                     build_resume_headers(file)),
                           file |-> handle_download_response(status, file)]]
    /\ PureFrame

\* ---- sanitize_filename (core/scraper.py:296-334) ----

\* A file name is the sequence of its characters.

\* re.sub(r'[<>:"/\\|?*\x00-\x1f]', "_", filename)
InvalidChars == {"<", ">", ":", "\"", "/", "\\", "|", "?", "*", "\t", "\n"}

sub_invalid(str) ==
    [i \in 1..Len(str) |-> IF str[i] \in InvalidChars THEN "_" ELSE str[i]]

\* The whitespace that is left after the control characters are replaced.
IsSpace(c) == c = " "

\* re.sub(r"\s+", " ", sanitized): of a run of whitespace one blank stays.
sub_spaces(str) ==
    LET marked == [i \in 1..Len(str) |->
                      [c |-> IF IsSpace(str[i]) THEN " " ELSE str[i],
                       drop |-> i > 1 /\ IsSpace(str[i]) /\ IsSpace(str[i - 1])]]
        kept == SelectSeq(marked, LAMBDA m : ~m.drop)
    IN [i \in 1..Len(kept) |-> kept[i].c]

\* str.strip() of a string whose whitespace runs are single blanks.
strip(str) ==
    LET from == IF Len(str) >= 1 /\ IsSpace(str[1]) THEN 2 ELSE 1
        to == IF Len(str) >= 1 /\ IsSpace(str[Len(str)]) THEN Len(str) - 1
              ELSE Len(str)
    IN SubSeq(str, from, to)

upper_char(c) ==
    CASE c = "a" -> "A" [] c = "o" -> "O" [] c = "n" -> "N" [] OTHER -> c

\* str.upper
upper(str) == [i \in 1..Len(str) |-> upper_char(str[i])]

reserved_names ==
    {<<"C", "O", "N">>, <<"P", "R", "N">>, <<"A", "U", "X">>, <<"N", "U", "L">>}
    \cup {<<"C", "O", "M", d>> : d \in {"1", "2", "3", "4", "5", "6", "7", "8", "9"}}
    \cup {<<"L", "P", "T", d>> : d \in {"1", "2", "3", "4", "5", "6", "7", "8", "9"}}

\* sanitized.split(".")[0]
before_dot(str) ==
    LET dot == Find(str, {"."})
    IN IF dot = 0 THEN str ELSE SubSeq(str, 1, dot - 1)

\* os.path.splitext of a name without separators: the extension starts at
\* the last dot, unless only dots come before it.
splitext(str) ==
    LET dots == {i \in 1..Len(str) : str[i] = "."}
        last == CHOOSE i \in dots : \A j \in dots : j <= i
    IN IF dots # {} /\ \E i \in 1..(last - 1) : str[i] # "."
       THEN [name |-> SubSeq(str, 1, last - 1), ext |-> SubSeq(str, last, Len(str))]
       ELSE [name |-> str, ext |-> <<>>]

\* name[:n], also for a negative n.
UpTo(str, n) ==
    IF n >= 0 THEN SubSeq(str, 1, IF n < Len(str) THEN n ELSE Len(str))
    ELSE SubSeq(str, 1, Len(str) + n)

unnamed_file == <<"u", "n", "n", "a", "m", "e", "d", "_", "f", "i", "l", "e">>

sanitize_filename(filename) ==
    LET cleaned == strip(sub_spaces(sub_invalid(filename)))
        prefixed == IF upper(before_dot(cleaned)) \in reserved_names
                    THEN <<"_">> \o cleaned ELSE cleaned
        parts == splitext(prefixed)
        max_name_len == MAX_FILENAME_LENGTH - Len(parts.ext)
        sanitized == IF Len(prefixed) > MAX_FILENAME_LENGTH
                     THEN UpTo(parts.name, max_name_len) \o parts.ext
                     ELSE prefixed
    IN IF sanitized = <<>> THEN unnamed_file ELSE sanitized

\* The names given to sanitize_filename are built of at most MaxBlocks
\* blocks: one letter, a blank, a dot, a forbidden character, a device name
\* in mixed case, three letters, or a run of letters four short of the
\* longest file name.
Run == [i \in 1..(MAX_FILENAME_LENGTH - 4) |-> "a"]

NameBlocks ==
    {<<"a">>, <<" ">>, <<".">>, <<"/">>, <<"C", "o", "n">>, <<"a", "a", "a">>, Run}

NameInputs == Seqs(NameBlocks, MaxBlocks)

RECURSIVE Flatten(_)
Flatten(blocks) ==
    IF blocks = <<>> THEN <<>> ELSE Head(blocks) \o Flatten(Tail(blocks))

\* The function is applied to the name, and then to its own result.
SanitizeFilename ==
    /\ call.fn = "sanitize_filename"
    /\ Len(call.ret) < 2
    /\ call' = [call EXCEPT !.ret =
                   Append(@, sanitize_filename(IF @ = <<>> THEN Flatten(call.arg)
                                               ELSE @[Len(@)]))]
    /\ PureFrame

\* ---- extract_media_from_posts (core/scraper.py:500-524) ----

\* Config.MEDIA_EXTENSIONS
MEDIA_EXTENSIONS ==
    {<<".", "j", "p", "g">>, <<".", "j", "p", "e", "g">>, <<".", "p", "n", "g">>,
     <<".", "g", "i", "f">>, <<".", "w", "e", "b", "p">>, <<".", "b", "m", "p">>,
     <<".", "w", "e", "b", "m">>, <<".", "m", "p", "4">>, <<".", "m", "o", "v">>,
     <<".", "a", "v", "i">>, <<".", "m", "k", "v">>, <<".", "p", "d", "f">>,
     <<".", "t", "x", "t">>, <<".", "z", "i", "p">>, <<".", "r", "a", "r">>}

lower_char(c) ==
    CASE c = "J" -> "j" [] c = "P" -> "p" [] c = "G" -> "g" [] c = "W" -> "w"
      [] c = "E" -> "e" [] c = "B" -> "b" [] c = "M" -> "m" [] c = "C" -> "c"
      [] OTHER -> c

\* str.lower of a file name or an extension
lower_chars(str) == [i \in 1..Len(str) |-> lower_char(str[i])]

\* A post of the API is a record of its four keys that matter; the value of
\* a key is {} when the post lacks the key and {v} when it has the value v.
Has(post, key) == post[key] # {}

Get(post, key) == CHOOSE v \in post[key] : TRUE

DecimalDigits == <<"0", "1", "2", "3", "4", "5", "6", "7", "8", "9">>

\* str(n) of a natural number, as an f-string writes it.
RECURSIVE str_int(_)
str_int(n) ==
    IF n < 10 THEN <<DecimalDigits[n + 1]>>
    ELSE str_int(n \div 10) \o <<DecimalDigits[(n % 10) + 1]>>

unnamed == <<"u", "n", "n", "a", "m", "e", "d">>

\* MediaFile(url, filename, board, thread_id), its size 0 until set.
MediaFile(url, filename, board, thread_id) ==
    [url |-> url, filename |-> filename, board |-> board,
     thread_id |-> thread_id, size |-> 0]

\* The loop of extract_media_from_posts with the extension tested as the
\* post spells it.
RECURSIVE extract_media_unlowered(_, _, _)
extract_media_unlowered(posts, board, thread_id) ==
    IF posts = <<>> THEN <<>>
    ELSE LET post == Head(posts)
             rest == extract_media_unlowered(Tail(posts), board, thread_id)
         IN IF Has(post, "tim") /\ Has(post, "ext")
                /\ Get(post, "ext") \in MEDIA_EXTENSIONS
            THEN LET ext == lower_chars(Get(post, "ext"))
                     filename == str_int(Get(post, "tim")) \o ext
                     original_name ==
                         (IF Has(post, "filename") THEN Get(post, "filename")
                          ELSE unnamed) \o ext
                     media_url == <<"https://i.4cdn.org/">> \o board \o <<"/">>
                                  \o filename
                     media_file == MediaFile(media_url,
                                             sanitize_filename(original_name),
                                             board, thread_id)
                 IN <<IF Has(post, "fsize")
                      THEN [media_file EXCEPT !.size = Get(post, "fsize")]
                      ELSE media_file>> \o rest
            ELSE rest

RECURSIVE extract_media_from_posts(_, _, _)
extract_media_from_posts(posts, board, thread_id) ==
    IF posts = <<>> THEN <<>>
    ELSE LET post == Head(posts)
             rest == extract_media_from_posts(Tail(posts), board, thread_id)
         IN IF Has(post, "tim") /\ Has(post, "ext")
                /\ lower_chars(Get(post, "ext")) \in MEDIA_EXTENSIONS
            THEN LET ext == lower_chars(Get(post, "ext"))
                     filename == str_int(Get(post, "tim")) \o ext
                     original_name ==
                         (IF Has(post, "filename") THEN Get(post, "filename")
                          ELSE unnamed) \o ext
                     media_url == <<"https://i.4cdn.org/">> \o board \o <<"/">>
                                  \o filename
                     media_file == MediaFile(media_url,
                                             sanitize_filename(original_name),
                                             board, thread_id)
                 IN <<IF Has(post, "fsize")
                      THEN [media_file EXCEPT !.size = Get(post, "fsize")]
                      ELSE media_file>> \o rest
            ELSE rest

\* The posts given to extract_media_from_posts: each key present or not,
\* extensions in lower and upper case, allowed and not, names that
\* sanitize_filename changes and names it does not.
Option(S) == {{}} \cup {{v} : v \in S}

PostExts ==
    {<<".", "j", "p", "g">>, <<".", "J", "P", "G">>, <<".", "w", "e", "b", "m">>,
     <<".", "e", "x", "e">>}

PostNames == {<<"a">>, <<"a", "/", "a">>, <<"C", "o", "n">>}

Posts ==
    [tim : Option({7, 12}), ext : Option(PostExts), filename : Option(PostNames),
     fsize : Option({5})]

ExtractInputs ==
    [posts : Seqs(Posts, MaxPosts), board : {<<"g">>}, thread_id : {<<"7">>}]

ExtractMediaFromPosts ==
    /\ call.fn = "extract_media_from_posts"
    /\ call.ret = Pending
    /\ call' = [call EXCEPT !.ret =
                   [type |-> "list",
                    list |-> extract_media_from_posts(call.arg.posts, call.arg.board,
                                                      call.arg.thread_id)]]
    /\ PureFrame

\* ---- _prepare_download_path (core/scraper.py:79-99) ----

\* A path is the sequence of its components; download_dir / name adds one.
NoneValue == <<"None">>

Slash(path, name) == Append(path, name)

\* str.endswith
endswith(str, suffix) ==
    /\ Len(suffix) <= Len(str)
    /\ SubSeq(str, Len(str) - Len(suffix) + 1, Len(str)) = suffix

dot_webm == <<".", "w", "e", "b", "m">>

misc == <<"m", "i", "s", "c">>

WEBM == <<"W", "E", "B", "M">>

\* ValueError("Download directory not set")
NotSet == [type |-> "raised", error |-> "ValueError"]

\* The function with the extension tested as the name spells it.
prepare_path_case_sensitive(download_dir, filename, url_folder_name) ==
    IF download_dir = NoneValue THEN NotSet
    ELSE LET thread_dir == IF url_folder_name \notin {NoneValue, <<>>}
                           THEN Slash(download_dir, url_folder_name)
                           ELSE Slash(download_dir, misc)
             webm == endswith(filename, dot_webm)
             save_dir == IF webm THEN Slash(thread_dir, WEBM) ELSE thread_dir
         IN [type |-> "tuple",
             file_path |-> Slash(save_dir, filename),
             save_dir |-> save_dir,
             mkdir |-> {thread_dir, save_dir}]

\* The result is the pair (file_path, save_dir); mkdir holds the directories
\* the function has made sure of.
prepare_download_path(download_dir, filename, url_folder_name) ==
    IF download_dir = NoneValue THEN NotSet
    ELSE LET thread_dir == IF url_folder_name \notin {NoneValue, <<>>}
                           THEN Slash(download_dir, url_folder_name)
                           ELSE Slash(download_dir, misc)
             webm == endswith(lower_chars(filename), dot_webm)
             save_dir == IF webm THEN Slash(thread_dir, WEBM) ELSE thread_dir
         IN [type |-> "tuple",
             file_path |-> Slash(save_dir, filename),
             save_dir |-> save_dir,
             mkdir |-> {thread_dir, save_dir}]

\* The names of the descriptors: at most MaxNameParts parts, each a letter,
\* an extension in lower or upper case, or the letters of an extension
\* without the dot.
NameParts ==
    {<<"a">>, dot_webm, <<".", "W", "e", "b", "M">>, <<".", "j", "p", "g">>,
     <<"w", "e", "b", "m">>}

FileNames == {Flatten(parts) : parts \in Seqs(NameParts, MaxNameParts) \ {<<>>}}

FolderNames == {NoneValue, <<>>, <<"g", "-", "7">>, misc, WEBM}

PathInputs ==
    [download_dir : {NoneValue, <<<<"r", "o", "o", "t">>>>},
     filename : FileNames, url_folder_name : FolderNames]

PrepareDownloadPath ==
    /\ call.fn = "_prepare_download_path"
    /\ call.ret = Pending
    /\ call' = [call EXCEPT !.ret =
                   prepare_download_path(call.arg.download_dir, call.arg.filename,
                                         call.arg.url_folder_name)]
    /\ PureFrame

\* The urls given to parse_url: a scheme or none, a host, the segments of a
\* path, a fragment or none.
Schemes ==
    {<<>>, <<"http", "s", ":", "/", "/">>, <<"http", ":", "/", "/">>,
     <<"Http", "s", ":", "/", "/">>}

Hosts == Seqs({"http", "x", ".", "4chan.org"}, MaxHostLen) \ {<<>>}

Segments ==
    {<<>>, <<"x">>, <<"thread">>, <<"catalog">>, <<"7">>, <<"7", "x">>,
     <<"x", ".", "4chan.org">>}

Fragments == {<<>>, <<"#", "x">>}

ParseInputs ==
    [scheme : Schemes, host : Hosts, segs : Seqs(Segments, MaxSegs),
     frag : Fragments]

RECURSIVE JoinPath(_)
JoinPath(segs) ==
    IF segs = <<>> THEN <<>> ELSE <<"/">> \o Head(segs) \o JoinPath(Tail(segs))

UrlString(a) == a.scheme \o a.host \o JoinPath(a.segs) \o a.frag

ParseUrl ==
    /\ call.fn = "parse_url"
    /\ call.ret = Pending
    /\ call' = [call EXCEPT !.ret = parse_url(UrlString(call.arg))]
    /\ PureFrame

\* ---- run's first pass and the requests of a run, one by one ----
\* (gui/workers.py:159-247, core/scraper.py:414-494, 527-559, 561-653)

\* A locator of parsed_urls: its type, and for a catalog or a board how
\* many threads with a numeric id the catalog lists.
Locators ==
    {[type |-> "thread", threads |-> 0]}
    \cup [type : {"catalog", "board"}, threads : 0..MaxCatalogThreads]

\* scrape_catalog(board, 10) for a catalog, scrape_catalog(board, 5) for a board.
max_threads(type) == IF type = "catalog" THEN 10 ELSE 5

\* A pool thread with no call of download_file.
NoWorker == [pc |-> "idle", url |-> 0, attempt |-> 0, waited |-> FALSE]

parsed_urls == call.arg

Request(kind, waited) == [kind |-> kind, waited |-> waited]

RequestFrame ==
    UNCHANGED <<tasks, content, disk, stats, downloaded_hashes, fut, net, batch,
                completed, collected, events, finalStats, lists, call,
                stats_mutex>>

FlagFrame == UNCHANGED <<paused, cancelled, cancelIn>>

\* The host's answer to a request: any answer but "ok" is a fault of the run.
Answers(answer) == IF answer = "ok" THEN UNCHANGED faults ELSE Inject

\* run is called: `for i, parsed_url in enumerate(self.parsed_urls)` begins.
RunStarts ==
    /\ opc = "idle"
    /\ opc' = "loop"
    /\ discovery' = [discovery EXCEPT !.i = 1]
    /\ UNCHANGED <<requests, thr, current_delay>>
    /\ RequestFrame /\ FlagFrame /\ UNCHANGED <<faults, download_queue>>

\* The head of the loop over the locators: the scrape of the next one begins,
\* up to the adaptive_delay() that opens get_thread_data or get_catalog_data;
\* after the last one `if total_files == 0` decides between the early return
\* and the second pass.
NextLocator ==
    /\ opc = "loop"
    /\ IF discovery.i > Len(parsed_urls)
       THEN /\ opc' = IF discovery.total_files = 0 THEN "finished" ELSE "submit"
            /\ UNCHANGED discovery
       ELSE /\ opc' = IF parsed_urls[discovery.i].type = "thread"
                      THEN "thread_delay" ELSE "catalog_delay"
            /\ discovery' = [discovery EXCEPT !.left = 0]
    /\ UNCHANGED <<requests, thr, current_delay>>
    /\ RequestFrame /\ FlagFrame /\ UNCHANGED <<faults, download_queue>>

\* self.adaptive_delay() at the head of get_thread_data and get_catalog_data:
\* the delay is updated and slept.
DelayBeforeFetch ==
    /\ opc \in {"thread_delay", "catalog_delay"}
    /\ current_delay' = after_success(current_delay)
    /\ discovery' = [discovery EXCEPT !.waited = TRUE]
    /\ opc' = IF opc = "thread_delay" THEN "thread_get" ELSE "catalog_get"
    /\ UNCHANGED <<requests, thr>>
    /\ RequestFrame /\ FlagFrame /\ UNCHANGED <<faults, download_queue>>

\* What follows the first request of an index fetch: adaptive_delay(True)
\* after a response, the penalty and its sleep after a 429, and
\* adaptive_delay(False) after any other error, in handle_network_error.
AfterResponse(answer) ==
    /\ current_delay' = CASE answer = "ok" -> after_success(current_delay)
                          [] answer = "429" -> rate_limited(current_delay)
                          [] OTHER -> after_failure(current_delay)

\* error_info["category"] as far as the fetch reads it, "none" for a response.
category(answer) ==
    CASE answer = "ok" -> "none"
      [] answer = "429" -> "rate_limited"
      [] OTHER -> "other"

\* scrape_thread has returned `files` descriptors to its caller: run takes the
\* next locator, scrape_catalog sleeps CATALOG_SCRAPE_DELAY and takes the
\* next thread of the catalog, or returns when none is left.
ThreadScraped(d, files) ==
    LET e == [d EXCEPT !.total_files = @ + files] IN
    IF d.left > 1
    THEN /\ discovery' = [e EXCEPT !.left = @ - 1]
         /\ opc' = "thread_delay"
    ELSE /\ discovery' = [e EXCEPT !.left = 0, !.i = @ + 1]
         /\ opc' = "loop"

\* get_catalog_data has returned: the loop over the first max_threads threads
\* of the catalog begins, or scrape_catalog returns [] to run.
CatalogFetched(d, listed) ==
    LET n == min(listed, max_threads(parsed_urls[d.i].type)) IN
    IF n > 0
    THEN /\ discovery' = [d EXCEPT !.left = n]
         /\ opc' = "thread_delay"
    ELSE /\ discovery' = [d EXCEPT !.left = 0, !.i = @ + 1]
         /\ opc' = "loop"

\* session.get of get_thread_data and what the answer leads to.
ThreadGet ==
    /\ opc = "thread_get"
    /\ requests' = Append(requests, Request("thread", discovery.waited))
    /\ \E answer \in {"ok", "429", "error"} :
          /\ Answers(answer)
          /\ AfterResponse(answer)
          /\ LET d == [discovery EXCEPT !.waited = TRUE,
                                        !.error_info = category(answer)] IN
             CASE answer = "ok" -> \E files \in 0..1 : ThreadScraped(d, files)
               [] answer = "429" -> discovery' = d /\ opc' = "thread_retry"
               [] OTHER -> ThreadScraped(d, 0)
    /\ UNCHANGED thr
    /\ RequestFrame /\ FlagFrame /\ UNCHANGED download_queue

\* The locals after the second request of a fetch: the response is returned,
\* or the except clause around the retry logs the error and returns None.
Retried(d, answer) ==
    [d EXCEPT !.waited = FALSE,
              !.error_info = IF answer = "ok" THEN @ ELSE "retry_failed"]

\* A retry that is made again when it fails.
ThreadRetryLoops ==
    /\ opc = "thread_retry"
    /\ requests' = Append(requests, Request("thread", discovery.waited))
    /\ \/ /\ Answers("ok")
          /\ \E files \in 0..1 : ThreadScraped(Retried(discovery, "ok"), files)
       \/ /\ Answers("error")
          /\ discovery' = Retried(discovery, "error")
          /\ UNCHANGED opc
    /\ UNCHANGED <<thr, current_delay>>
    /\ RequestFrame /\ FlagFrame /\ UNCHANGED download_queue

\* time.sleep(RETRY_DELAY) and the second session.get of get_thread_data.
ThreadRetry ==
    /\ opc = "thread_retry"
    /\ requests' = Append(requests, Request("thread", discovery.waited))
    /\ \/ /\ Answers("ok")
          /\ \E files \in 0..1 : ThreadScraped(Retried(discovery, "ok"), files)
       \/ /\ Answers("error")
          /\ ThreadScraped(Retried(discovery, "error"), 0)
    /\ UNCHANGED <<thr, current_delay>>
    /\ RequestFrame /\ FlagFrame /\ UNCHANGED download_queue

\* session.get of get_catalog_data and what the answer leads to.
CatalogGet ==
    /\ opc = "catalog_get"
    /\ requests' = Append(requests, Request("catalog", discovery.waited))
    /\ \E answer \in {"ok", "429", "error"} :
          /\ Answers(answer)
          /\ AfterResponse(answer)
          /\ LET d == [discovery EXCEPT !.waited = TRUE,
                                        !.error_info = category(answer)] IN
             CASE answer = "ok" -> CatalogFetched(d, parsed_urls[d.i].threads)
               [] answer = "429" -> discovery' = d /\ opc' = "catalog_retry"
               [] OTHER -> CatalogFetched(d, 0)
    /\ UNCHANGED thr
    /\ RequestFrame /\ FlagFrame /\ UNCHANGED download_queue

\* time.sleep(RETRY_DELAY) and the second session.get of get_catalog_data.
CatalogRetry ==
    /\ opc = "catalog_retry"
    /\ requests' = Append(requests, Request("catalog", discovery.waited))
    /\ \/ /\ Answers("ok")
          /\ CatalogFetched(Retried(discovery, "ok"),
                            parsed_urls[discovery.i].threads)
       \/ /\ Answers("error")
          /\ CatalogFetched(Retried(discovery, "error"), 0)
    /\ UNCHANGED <<thr, current_delay>>
    /\ RequestFrame /\ FlagFrame /\ UNCHANGED download_queue

\* executor.submit(self.scraper.download_file, ...) for the next descriptor;
\* after the last one run goes on to as_completed.
Submit ==
    /\ opc = "submit"
    /\ IF discovery.submitted < discovery.total_files
       THEN /\ discovery' = [discovery EXCEPT !.submitted = @ + 1]
            /\ UNCHANGED opc
       ELSE /\ opc' = "collect"
            /\ UNCHANGED discovery
    /\ UNCHANGED <<requests, thr, current_delay>>
    /\ RequestFrame /\ FlagFrame /\ UNCHANGED <<faults, download_queue>>

\* A pool thread takes the next submitted call of download_file, the
\* descriptors of the run having urls 1, 2, ... in the order of submission:
\* start_download, then the gate before the transfer: cancelled, it returns
\* through _mark_download_cancelled; else the first attempt begins.
TakeCall(w) ==
    LET url == discovery.taken + 1
        q == start_download(download_queue, url)
    IN
    /\ opc \in {"submit", "collect"}
    /\ thr[w].pc = "idle"
    /\ discovery.taken < discovery.submitted
    /\ discovery' = [discovery EXCEPT !.taken = url]
    /\ IF cancelled
       THEN /\ download_queue' = fail_download(q, url, "Cancelled")
            /\ thr' = [thr EXCEPT ![w] = NoWorker]
       ELSE /\ download_queue' = q
            /\ thr' = [thr EXCEPT ![w] = [NoWorker EXCEPT !.pc = "get", !.url = url]]
    /\ UNCHANGED <<opc, requests, current_delay>>
    /\ RequestFrame /\ FlagFrame /\ UNCHANGED faults

\* A transfer that ends well and leaves its url among the active ones.
MediaGetKeepsActive(w) ==
    /\ thr[w].pc = "get"
    /\ requests' = Append(requests, Request("media", thr[w].waited))
    /\ Answers("ok")
    /\ download_queue' = [download_queue EXCEPT !.completed = @ \cup {thr[w].url}]
    /\ thr' = [thr EXCEPT ![w] = NoWorker]
    /\ UNCHANGED <<opc, discovery, current_delay>>
    /\ RequestFrame /\ FlagFrame

\* session.get of one attempt of download_file; after an error
\* _handle_download_retry sleeps 2 ** attempt and the next attempt begins,
\* or the last attempt has failed.
MediaGet(w) ==
    /\ thr[w].pc = "get"
    /\ requests' = Append(requests, Request("media", thr[w].waited))
    /\ \/ /\ Answers("ok")
          /\ download_queue' = complete_download(download_queue, thr[w].url)
          /\ thr' = [thr EXCEPT ![w] = NoWorker]
       \/ Answers("error") /\
          IF handle_download_retry(thr[w].attempt)
          THEN /\ thr' = [thr EXCEPT ![w].attempt = @ + 1]
               /\ UNCHANGED download_queue
          ELSE /\ download_queue' = fail_download(download_queue, thr[w].url,
                                                  "HTTPError")
               /\ thr' = [thr EXCEPT ![w] = NoWorker]
    /\ UNCHANGED <<opc, discovery, current_delay>>
    /\ RequestFrame /\ FlagFrame

\* The executor's shutdown at the end of the `with` block: every call has
\* returned; the final statistics and the finished signal follow.
RunReturns ==
    /\ opc = "collect"
    /\ discovery.taken = discovery.submitted
    /\ \A w \in Threads : thr[w].pc = "idle"
    /\ opc' = "finished"
    /\ UNCHANGED <<discovery, requests, thr, current_delay, download_queue>>
    /\ RequestFrame /\ FlagFrame /\ UNCHANGED faults

\* ---- initial states ----

\* Descriptor i goes to path i; its url is one of the urls of the earlier
\* descriptors or a new one.
TaskLists ==
    UNION {{s \in [1..n -> [url : Urls, path : Paths]] :
              \A i \in 1..n : s[i].path = i /\ s[i].url <= i} : n \in 1..NumTasks}

\* What the destination of the first descriptor may hold before the first
\* batch: nothing, an empty file, a partial file or the complete file.
InitialFiles(u) ==
    {Absent} \cup {File(SubSeq(RemoteBody(u), 1, k)) : k \in 0..RemoteSize}

EngineInit ==
    /\ tasks \in TaskLists
    /\ content \in [Urls -> {1, 2}]
    /\ content[1] = 1
    /\ \A u \in Urls : (\A i \in 1..Len(tasks) : tasks[i].url # u) => content[u] = 1
    /\ disk \in [Paths -> UNION {InitialFiles(u) : u \in Urls}]
    /\ disk[1] \in InitialFiles(tasks[1].url)
    /\ \A p \in Paths : p # 1 => disk[p] = Absent
    /\ stats = [total |-> 0, downloaded |-> 0, failed |-> 0, skipped |-> 0,
                duplicates |-> 0]
    /\ downloaded_hashes = {}
    /\ paused = FALSE
    /\ cancelled = FALSE
    /\ download_queue = [queue |-> {}, active_downloads |-> {}, completed |-> {},
                         failed |-> {}, history |-> <<>>]
    /\ fut = [t \in TaskIds |-> NoFrame]
    /\ net = [t \in TaskIds |-> NoTraffic]
    /\ opc = "idle"
    /\ batch = 0
    /\ completed = 0
    /\ collected = {}
    /\ events = <<>>
    /\ finalStats = stats
    /\ faults = 0
    /\ cancelIn = FALSE

\* No call is taken apart: the lists are empty and both threads idle.
AuxInit ==
    /\ lists = NoLists
    /\ current_delay = BASE_DELAY
    /\ stats_mutex = 0
    /\ discovery = NoDiscovery
    /\ requests = <<>>
    /\ thr = [w \in Threads |-> NoCall]
    /\ call = NoFunction

Init == EngineInit /\ AuxInit

Worker(t) ==
    \/ Begin(t)
    \/ GateSleep(t)
    \/ GateWhile(t)
    \/ Attempt(t)
    \/ NextChunk(t)
    \/ ChunkSleep(t)
    \/ ChunkWhile(t)
    \/ Finish(t)

Fault(t) ==
    \/ AttemptHashError(t)
    \/ AttemptDiskFull(t)
    \/ AttemptBadResponse(t)
    \/ StreamError(t)
    \/ FinishHashError(t)

Orchestrator ==
    \/ StartBatch
    \/ DiscoverFound
    \/ DiscoverEmpty
    \/ DiscoverRaise
    \/ \E t \in TaskIds : Collect(t)
    \/ FinishRun

Control ==
    \/ pause_downloads
    \/ resume_downloads
    \/ cancel_downloads

Next ==
    \/ \E t \in TaskIds : Worker(t)
    \/ \E t \in TaskIds : Fault(t)
    \/ Orchestrator
    \/ Control

Spec == Init /\ [][Next]_vars

\* ---- the batch runs of a session with no fault and no cancellation ----

NextLive ==
    \/ \E t \in TaskIds : Worker(t)
    \/ Orchestrator
    \/ pause_downloads
    \/ resume_downloads

\* Every pool thread that can take a step eventually takes one.
LiveSpec == Init /\ [][NextLive]_vars /\ \A t \in TaskIds : WF_vars(Worker(t))

\* ---- the batch runs of a session with cancel(), where the only fault is
\* ---- a connection that drops in the middle of a stream ----

NextCancel ==
    \/ \E t \in TaskIds : Worker(t)
    \/ \E t \in TaskIds : StreamError(t)
    \/ Orchestrator
    \/ Control

\* Sleeps and network reads return: every pool thread that can take a step
\* eventually takes one, and so does run.
CancelSpec ==
    /\ Init
    /\ [][NextCancel]_vars
    /\ \A t \in TaskIds : WF_vars(Worker(t))
    /\ WF_vars(Orchestrator)

\* ---- two pool threads in download_file, their queue calls taken apart ----

\* The engine in one of its initial states, where it stays.
EngineAtRest == EngineInit /\ Len(tasks) = 1 /\ disk[1] = Absent

RaceInit ==
    /\ EngineAtRest
    /\ lists = NoLists
    /\ current_delay = BASE_DELAY
    /\ stats_mutex = 0
    /\ discovery = NoDiscovery
    /\ requests = <<>>
    /\ thr \in [Threads -> {[NoCall EXCEPT !.pc = "start", !.url = u] : u \in Urls}]
    /\ call = NoFunction

RaceNext ==
    \E w \in Threads :
        \/ StartCheck(w)
        \/ StartAppend(w)
        \/ Gate(w)
        \/ AttemptBody(w)
        \/ Except(w)
        \/ OpCheck(w)
        \/ OpRemove(w)
        \/ OpCheckTarget(w)
        \/ OpAppend(w)

RaceSpec == RaceInit /\ [][RaceNext]_vars

\* ---- parse_url on every url of the bounded set ----

ParseInit ==
    /\ EngineAtRest
    /\ lists = NoLists
    /\ current_delay = BASE_DELAY
    /\ stats_mutex = 0
    /\ discovery = NoDiscovery
    /\ requests = <<>>
    /\ thr = [w \in Threads |-> NoCall]
    /\ call \in [fn : {"parse_url"}, arg : ParseInputs, ret : {Pending}]

ParseSpec == ParseInit /\ [][ParseUrl]_vars

\* ---- sanitize_filename on every name of the bounded set ----

SanitizeInit ==
    /\ EngineAtRest
    /\ lists = NoLists
    /\ current_delay = BASE_DELAY
    /\ stats_mutex = 0
    /\ discovery = NoDiscovery
    /\ requests = <<>>
    /\ thr = [w \in Threads |-> NoCall]
    /\ call \in [fn : {"sanitize_filename"}, arg : NameInputs, ret : {<<>>}]

SanitizeSpec == SanitizeInit /\ [][SanitizeFilename]_vars

\* ---- extract_media_from_posts on every thread of the bounded set ----

ExtractInit ==
    /\ EngineAtRest
    /\ lists = NoLists
    /\ current_delay = BASE_DELAY
    /\ stats_mutex = 0
    /\ discovery = NoDiscovery
    /\ requests = <<>>
    /\ thr = [w \in Threads |-> NoCall]
    /\ call \in [fn : {"extract_media_from_posts"}, arg : ExtractInputs,
                 ret : {Pending}]

ExtractSpec == ExtractInit /\ [][ExtractMediaFromPosts]_vars

\* ---- _prepare_download_path on every name of the bounded set ----

PathInit ==
    /\ EngineAtRest
    /\ lists = NoLists
    /\ current_delay = BASE_DELAY
    /\ stats_mutex = 0
    /\ discovery = NoDiscovery
    /\ requests = <<>>
    /\ thr = [w \in Threads |-> NoCall]
    /\ call \in [fn : {"_prepare_download_path"}, arg : PathInputs, ret : {Pending}]

PathSpec == PathInit /\ [][PrepareDownloadPath]_vars

\* ---- the delay updated by two threads ----

DelayInit ==
    /\ EngineAtRest
    /\ lists = NoLists
    /\ current_delay = BASE_DELAY
    /\ stats_mutex = 0
    /\ discovery = NoDiscovery
    /\ requests = <<>>
    /\ thr = [w \in Threads |-> NoUpdate]
    /\ call = NoFunction

DelayNext ==
    \E w \in Threads :
        \/ AdaptiveDelaySuccess(w)
        \/ AdaptiveDelayFailure(w)
        \/ RateLimited(w)
        \/ AssignDelay(w)
        \/ SleepDelay(w)

DelaySpec == DelayInit /\ [][DelayNext]_vars

\* ---- the queue's methods called twice, beside two starting threads ----

QueueInit == RaceInit

QueueNext ==
    \/ \E url \in Urls :
          \/ AddUrl(url)
          \/ StartDownload(url)
          \/ CompleteDownload(url)
          \/ FailDownload(url)
    \/ SecondCall
    \/ \E w \in Threads : ThreadStarts(w)

QueueSpec == QueueInit /\ [][QueueNext]_vars

\* ---- two transfers at the counters and the hash set ----

LockInit ==
    /\ EngineAtRest
    /\ lists = NoLists
    /\ current_delay = BASE_DELAY
    /\ stats_mutex = 0
    /\ discovery = NoDiscovery
    /\ requests = <<>>
    /\ thr \in [Threads -> {[NoTransfer EXCEPT !.exists = e, !.c = c] :
                               e \in BOOLEAN, c \in 1..NumContents}]
    /\ call = NoFunction

LockNext ==
    \/ RunSubmits
    \/ \E w \in Threads :
          \/ CheckExists(w)
          \/ HashExisting(w)
          \/ Lock(w)
          \/ Unlock(w)
          \/ TestHash(w)
          \/ CountDuplicate(w)
          \/ AddHash(w)
          \/ Count(w)
          \/ Transfer(w)
          \/ HashFresh(w)
          \/ CompleteReturn(w)
          \/ FailReturn(w)

LockSpec == LockInit /\ [][LockNext]_vars

\* ---- _handle_download_response on every response of the bounded set ----

ResponseInit ==
    /\ EngineAtRest
    /\ lists = NoLists
    /\ current_delay = BASE_DELAY
    /\ stats_mutex = 0
    /\ discovery = NoDiscovery
    /\ requests = <<>>
    /\ thr = [w \in Threads |-> NoCall]
    /\ call \in [fn : {"_handle_download_response"}, arg : ResponseInputs,
                 ret : {Pending}]

ResponseSpec == ResponseInit /\ [][HandleDownloadResponse]_vars

\* ---- one run, request by request, with cancel() at any moment ----

RequestInit ==
    /\ EngineAtRest
    /\ lists = NoLists
    /\ current_delay = BASE_DELAY
    /\ stats_mutex = 0
    /\ discovery = NoDiscovery
    /\ requests = <<>>
    /\ thr = [w \in Threads |-> NoWorker]
    /\ call \in [fn : {"run"},
                 arg : UNION {[1..k -> Locators] : k \in 1..MaxLocators},
                 ret : {Pending}]

RequestNext ==
    \/ RunStarts
    \/ NextLocator
    \/ DelayBeforeFetch
    \/ ThreadGet
    \/ ThreadRetry
    \/ CatalogGet
    \/ CatalogRetry
    \/ Submit
    \/ \E w \in Threads : TakeCall(w)
    \/ \E w \in Threads : MediaGet(w)
    \/ RunReturns
    \/ cancel_downloads

RequestSpec == RequestInit /\ [][RequestNext]_vars

\* ---- properties ----

FullFile(t) == File(RemoteBody(Url(t)))

\* C1: a transfer that began with a partial file of k > 0 bytes at its
\* destination, and met no fault and no cancellation, returns with the
\* destination holding the full remote content and with exactly
\* RemoteSize - k chunks received over the wire.
ResumeProperty ==
    \A t \in TaskIds :
        (/\ fut[t].pc = "done"
         /\ net[t].found \in 1..(RemoteSize - 1)
         /\ faults = 0
         /\ ~cancelled)
        => /\ disk[Path(t)] = FullFile(t)
           /\ net[t].wire = RemoteSize - net[t].found

\* C2: once the cancellation flag is set, a transfer that is still queued in
\* the pool, or that sleeps in the backoff after a failed attempt, does not
\* issue a GET as its next step.
NoAttemptAfterCancel ==
    [][\A t \in TaskIds :
          (cancelled /\ fut[t].pc \in {"queued", "backoff"})
          => net'[t].gets = net[t].gets]_vars

\* C3: a transfer that did not find a 0-byte file at its path when it began
\* leaves no 0-byte file there when it has returned, and it has not returned
\* success for a file without bytes.
ZeroByteProperty ==
    \A t \in TaskIds :
        (fut[t].pc = "done" /\ net[t].found # 0)
        => /\ ~(disk[Path(t)].exists /\ Len(disk[Path(t)].data) = 0)
           /\ fut[t].result = "true"
              => (disk[Path(t)].exists /\ Len(disk[Path(t)].data) > 0)

\* C4: when the two descriptors of a batch have identical content and
\* neither destination held a file beforehand, the finished batch (no fault,
\* no cancellation) has received the content over the wire once and has
\* counted one duplicate.
DedupProperty ==
    (/\ opc = "idle" /\ batch = 1 /\ Len(tasks) = 2
     /\ content[Url(1)] = content[Url(2)]
     /\ net[1].found = -1 /\ net[2].found = -1
     /\ faults = 0 /\ ~cancelled
     /\ fut[1].pc = "done" /\ fut[2].pc = "done")
    => /\ stats.duplicates = 1
       /\ net[1].wire + net[2].wire = RemoteSize

Exhausts(t) ==
    /\ fut[t].pc # "done"
    /\ fut'[t].pc = "done"
    /\ fut'[t].result = "false"
    /\ fut'[t].cause \notin {"Cancelled", "Insufficient disk space"}
    /\ fut'[t].attempt = MAX_RETRIES - 1

FailedRecords(q, url) ==
    {i \in DOMAIN q.history :
        q.history[i].url = url /\ q.history[i].status = "failed"}

\* C5: the step by which a transfer returns after its last attempt failed
\* leaves exactly one "failed" record of its url in the history, the failed
\* counter one higher, and the url in failed and not in completed.
RetryExhaustion ==
    [][\A t \in TaskIds :
          Exhausts(t)
          => /\ Cardinality(FailedRecords(download_queue', Url(t))) = 1
             /\ stats'.failed = stats.failed + 1
             /\ Url(t) \in download_queue'.failed
             /\ Url(t) \notin download_queue'.completed]_vars

Collections == {"queue", "active_downloads", "completed", "failed"}

\* C6: every url is in at most one of the collections queue,
\* active_downloads, completed and failed.
QueueExclusive ==
    \A u \in Urls :
        Cardinality({c \in Collections : u \in download_queue[c]}) <= 1

HasEvent(e) == \E i \in DOMAIN events : events[i].e = e

\* C7: in the statistics emitted with the finished event of a batch that
\* submitted N files, downloaded + failed, and also downloaded + failed +
\* skipped + duplicates, is at most N.
FinalStatsBounded ==
    (opc = "idle" /\ HasEvent("start"))
    => /\ finalStats.downloaded + finalStats.failed <= Len(tasks)
       /\ finalStats.downloaded + finalStats.failed + finalStats.skipped
             + finalStats.duplicates <= Len(tasks)

\* C8: when cancel() was called during the discovery of a batch or while
\* one of its transfers was not yet collected, the events of the ended run
\* hold the cancellation line, before the finished event.
CancelLogged ==
    (opc = "idle" /\ cancelIn)
    => \E i, j \in DOMAIN events :
          i < j /\ events[i].e = "cancel" /\ events[j].e = "finished"

MidStream(t) == fut[t].pc \in {"stream", "chunk_sleep", "chunk_while"}

Succeeded(t) ==
    /\ fut[t].pc = "done"
    /\ fut[t].result = "true"
    /\ disk[Path(t)] = FullFile(t)

\* C9: with no cancel and no fault, if the pause is in the end lifted for
\* good, a transfer that is paused while it streams its chunks eventually
\* returns success with the destination holding every chunk of the remote
\* file, once and in order.
PauseResumeCompletes ==
    (<>[](~paused))
    => \A t \in TaskIds : [](((paused /\ MidStream(t)) => <>Succeeded(t)))

\* A transfer of two chunks that was blocked by the pause with its second
\* chunk in hand, after the pause was lifted.
PauseResumeWitness ==
    \E t \in TaskIds :
        /\ fut[t].pc = "chunk_while"
        /\ ~paused
        /\ faults = 0 /\ ~cancelled
        /\ Len(disk[Path(t)].data) = RemoteSize - 1
        /\ fut[t].chunk = RemoteBody(Url(t))[RemoteSize]

Finished == {i \in DOMAIN events : events[i].e = "finished"}

\* C10: a run that has ended has emitted exactly one finished event, as the
\* last of its events (after every progress event); a run that has not ended
\* has emitted none.
OneFinishedPerRun ==
    /\ (opc = "idle" /\ batch >= 1)
       => (Cardinality(Finished) = 1 /\ events[Len(events)].e = "finished")
    /\ opc # "idle" => Finished = {}

\* A run that emitted a progress event, was then cancelled with a transfer
\* not yet collected, and has ended.
OneFinishedWitness ==
    /\ opc = "idle"
    /\ cancelIn
    /\ HasEvent("progress")
    /\ HasEvent("cancel")

EmptyQueue ==
    [queue |-> {}, active_downloads |-> {}, completed |-> {}, failed |-> {},
     history |-> <<>>]

\* C11: the step that starts a batch after an earlier batch has finished
\* leaves the counters at zero, the queue collections empty and the pause
\* and cancel flags cleared.
FreshSessionState ==
    [][(batch >= 1 /\ batch' = batch + 1)
       => /\ stats'.downloaded = 0 /\ stats'.failed = 0
          /\ stats'.skipped = 0 /\ stats'.duplicates = 0
          /\ download_queue' = EmptyQueue
          /\ ~paused'
          /\ ~cancelled']_vars

\* C12: no download_file call ends by raising: whatever the interleaving of
\* two pool threads, also on the same url, each call returns true or false.
NoExceptionCrosses ==
    \A w \in Threads : thr[w].result # "raised"

Parsed == call.fn = "parse_url" /\ call.ret # Pending

\* The segments of the url that are not empty.
PathSegments(a) == SelectSeq(a.segs, LAMBDA g : g # <<>>)

\* C13: parse_url returns a locator only for a url whose host is 4chan.org
\* or ends with ".4chan.org", and returns one for every url with such a host
\* and at least one path segment, given with or without a scheme.
ParseAcceptsHost ==
    Parsed
    => /\ call.ret # NoLocator => HostAccepted(call.arg.host)
       /\ (HostAccepted(call.arg.host) /\ PathSegments(call.arg) # <<>>)
          => call.ret # NoLocator

\* C14: for a url on an accepted host, the path /<section>/thread/<digits>,
\* with or without a fragment, yields the thread locator of that section and
\* those digits, /<section>/catalog yields the catalog locator with no
\* thread_id, and every locator has a thread_id exactly when its type is
\* thread.
ParseThreadAndCatalog ==
    Parsed
    => LET a == call.arg
           segs == a.segs
       IN /\ (/\ HostAccepted(a.host) /\ Len(segs) = 3 /\ segs[1] # <<>>
              /\ segs[2] = <<"thread">> /\ isdigit(segs[3]))
             => call.ret = [board |-> segs[1], type |-> "thread",
                            thread_id |-> segs[3]]
          /\ (/\ HostAccepted(a.host) /\ Len(segs) = 2 /\ segs[1] # <<>>
              /\ segs[2] = <<"catalog">>)
             => call.ret = [board |-> segs[1], type |-> "catalog",
                            thread_id |-> NoneId]
          /\ call.ret # NoLocator
             => (call.ret.thread_id # NoneId <=> call.ret.type = "thread")

\* The name as it is before the length is looked at.
Cleaned(blocks) == strip(sub_spaces(sub_invalid(Flatten(blocks))))

EndsWith(str, suffix) ==
    /\ Len(suffix) <= Len(str)
    /\ SubSeq(str, Len(str) - Len(suffix) + 1, Len(str)) = suffix

\* C17: sanitize_filename applied to its own result returns that result.
SanitizeIdempotent ==
    (call.fn = "sanitize_filename" /\ Len(call.ret) = 2)
    => call.ret[2] = call.ret[1]

\* C18: the result of sanitize_filename is never longer than
\* MAX_FILENAME_LENGTH, and the result of a name that was too long ends with
\* the extension of that name.
SanitizeLength ==
    (call.fn = "sanitize_filename" /\ Len(call.ret) >= 1)
    => /\ Len(call.ret[1]) <= MAX_FILENAME_LENGTH
       /\ Len(Cleaned(call.arg)) > MAX_FILENAME_LENGTH
          => EndsWith(call.ret[1], splitext(Cleaned(call.arg)).ext)

\* A post that has a media file: both keys, and an extension that is allowed
\* once it is written in lower case.
Eligible(post) ==
    /\ Has(post, "tim")
    /\ Has(post, "ext")
    /\ lower_chars(Get(post, "ext")) \in MEDIA_EXTENSIONS

Extracted == call.fn = "extract_media_from_posts" /\ call.ret # Pending

\* C15: extract_media_from_posts returns a list, and the list holds one
\* descriptor for each eligible post, in the order of the posts: its url is
\* https://i.4cdn.org/<board>/<tim><ext>, its name the sanitized original
\* name with the extension, its size the fsize of the post when the post has
\* one; the other posts yield nothing.
ExtractContract ==
    Extracted
    => LET eligible == SelectSeq(call.arg.posts, Eligible)
           board == call.arg.board
       IN /\ call.ret.type = "list"
          /\ Len(call.ret.list) = Len(eligible)
          /\ \A k \in 1..Len(eligible) :
                LET post == eligible[k]
                    media_file == call.ret.list[k]
                    ext == lower_chars(Get(post, "ext"))
                IN /\ media_file.url = <<"https://i.4cdn.org/">> \o board
                                       \o <<"/">> \o str_int(Get(post, "tim")) \o ext
                   /\ media_file.filename =
                          sanitize_filename((IF Has(post, "filename")
                                             THEN Get(post, "filename")
                                             ELSE unnamed) \o ext)
                   /\ Has(post, "fsize") => media_file.size = Get(post, "fsize")
                   /\ media_file.board = board

\* A thread of two posts, the first without a media file and the second with
\* one whose extension is in upper case, has yielded one descriptor.
ExtractWitness ==
    /\ Extracted
    /\ Len(call.arg.posts) = 2
    /\ ~Eligible(call.arg.posts[1])
    /\ Eligible(call.arg.posts[2])
    /\ Get(call.arg.posts[2], "ext") \notin MEDIA_EXTENSIONS
    /\ Has(call.arg.posts[2], "fsize")
    /\ Len(call.ret.list) = 1

Prepared ==
    /\ call.fn = "_prepare_download_path"
    /\ call.ret # Pending
    /\ call.arg.download_dir # NoneValue

\* The last five characters of the name spell .webm in any case.
IsWebm(filename) ==
    /\ Len(filename) >= 5
    /\ \A i \in 1..5 : lower_char(filename[Len(filename) - 5 + i]) = dot_webm[i]

\* C16: with the download directory set, the path of a descriptor is
\* <root>/<folder>/WEBM/<filename> when its name ends with .webm in any case
\* and <root>/<folder>/<filename> when it does not, where <folder> is misc
\* when no folder name or an empty one is given.
DestinationPath ==
    Prepared
    => LET root == call.arg.download_dir
           folder == IF call.arg.url_folder_name \in {NoneValue, <<>>} THEN misc
                     ELSE call.arg.url_folder_name
           filename == call.arg.filename
       IN /\ call.ret.type = "tuple"
          /\ IsWebm(filename)
             => call.ret.file_path = root \o <<folder, WEBM, filename>>
          /\ ~IsWebm(filename)
             => call.ret.file_path = root \o <<folder, filename>>

\* A name ending with .WebM was placed, without a folder name, in misc/WEBM.
DestinationWitness ==
    /\ Prepared
    /\ IsWebm(call.arg.filename)
    /\ ~endswith(call.arg.filename, dot_webm)
    /\ call.arg.url_folder_name = <<>>
    /\ call.ret.type = "tuple"
    /\ call.ret.save_dir = call.arg.download_dir \o <<misc, WEBM>>

\* C19: the delay is never below BASE_DELAY and never above MAX_DELAY, and
\* no thread has slept a time outside these bounds.
DelayBounded ==
    /\ BASE_DELAY <= current_delay
    /\ current_delay <= MAX_DELAY
    /\ \A w \in Threads :
          (thr[w].pc = "idle" /\ thr[w].calls > 0)
          => (BASE_DELAY <= thr[w].slept /\ thr[w].slept <= MAX_DELAY)

\* A penalty has met the upper bound: the delay is MAX_DELAY after a thread
\* assigned less than twice the delay it had read.
DelayWitness ==
    /\ current_delay = MAX_DELAY
    /\ \E w \in Threads : thr[w].pc = "sleep" /\ thr[w].value = MAX_DELAY
    /\ \E w \in Threads : thr[w].calls >= 2

\* C20: the second of two calls of a queue method with the same url, made
\* right after the first, changes none of the four collections and appends
\* nothing to the history.
QueueIdempotent ==
    [][(~NoPairOpen /\ call'.times = 2) => lists' = lists]_vars

\* C21: a step that changes a counter or the hash set is taken by the thread
\* that holds the mutex.
LockDiscipline ==
    [][(stats' # stats \/ downloaded_hashes' # downloaded_hashes)
       => (stats_mutex \in Threads /\ thr'[stats_mutex] # thr[stats_mutex])]_vars

\* The threads whose destination held a nonempty file that was hashed.
CheckedExisting == {w \in Threads : thr[w].exists /\ thr[w].gets = 0}

AllReturned == \A w \in Threads : thr[w].pc = "done"

\* C22: a transfer whose destination holds a nonempty file that can be
\* hashed returns True without an HTTP request and counts once, as a
\* duplicate or as skipped; when every transfer of the pool is such a one and
\* the files have the same content, one is counted skipped and the others
\* duplicates.
ExistingCountedOnce ==
    /\ \A w \in Threads :
          (thr[w].pc \in {"test", "duplicate", "add", "skipped"}
           \/ thr[w].pc \in {"unlock_duplicate", "unlock_added", "unlock_skipped",
                             "lock_skipped"})
          => thr[w].gets = 0
    /\ AllReturned
       => /\ \A w \in CheckedExisting : thr[w].result = "true"
          /\ stats.skipped + stats.duplicates = Cardinality(CheckedExisting)
          /\ (CheckedExisting = Threads /\ \A w \in Threads : thr[w].c = thr[1].c)
             => (stats.skipped = 1 /\ stats.duplicates = MAX_WORKERS - 1)

\* Both transfers found files of the same content and have returned.
ExistingCountedWitness ==
    /\ AllReturned
    /\ CheckedExisting = Threads
    /\ thr[1].c = thr[2].c
    /\ stats.duplicates = 1

\* C23: a 206 response leaves the bytes at the destination in place, a 200
\* response leaves an empty file to write to, and a response with any other
\* status raises and leaves the destination as it was.
ResponseStatusHandling ==
    (call.fn = "_handle_download_response" /\ call.ret # Pending)
    => LET status == call.arg.status
           file == call.arg.file
       IN /\ status = 206
             => (call.ret.type = "tuple" /\ call.ret.mode = "ab"
                 /\ call.ret.file.data = file.data)
          /\ status = 200
             => (call.ret.type = "tuple" /\ call.ret.mode = "wb"
                 /\ call.ret.file = File(<<>>))
          /\ status \notin {200, 206}
             => (call.ret.type = "raised" /\ call.ret.file = file)

\* C24: a transfer makes at most MAX_RETRIES attempts; the attempt after a
\* backoff passes the gate first, so while the pause flag or the cancel flag
\* is set it checks no existing file and issues no request; and the last
\* failed attempt returns False at once with the url among the failed.
RetryPolicy ==
    [][\A t \in TaskIds :
          /\ fut'[t].attempt < MAX_RETRIES
          /\ (fut[t].pc = "backoff" /\ (paused \/ cancelled) /\ fut'[t] # fut[t])
             => /\ net'[t].gets = net[t].gets
                /\ fut'[t].pc = "gate_sleep"
                   \/ (fut'[t].pc = "done" /\ fut'[t].cause = "Cancelled")
          /\ (fut[t].pc \in {"attempt", "backoff", "stream"}
              /\ NextAttempt(fut[t]) = MAX_RETRIES - 1
              /\ fut'[t].pc \notin {fut[t].pc, "stream", "chunk_sleep"})
             => (fut'[t].pc = "done"
                 /\ (fut'[t].result = "false" => Url(t) \in download_queue'.failed))]_vars

\* The step of a transfer that finds its written file empty: the zero-byte
\* test after the stream loop unlinks it.
FoundEmpty(t) ==
    /\ fut[t].pc = "stream"
    /\ fut[t].body = <<>>
    /\ disk[Path(t)].exists
    /\ Len(disk[Path(t)].data) = 0
    /\ disk'[Path(t)] = Absent
    /\ fut'[t] # fut[t]

\* C25: an attempt that ends with a 0-byte file is terminal at once: the
\* transfer returns false after that attempt, with no backoff sleep and no
\* further attempt.
EmptyDownloadTerminal ==
    [][\A t \in TaskIds :
          FoundEmpty(t) => (fut'[t].pc = "done" /\ fut'[t].result = "false")]_vars

\* C26: an attempt that reaches the disk-space gate with too little free space
\* ends the transfer at once: it returns false with the cause "Insufficient
\* disk space", sends no request, counts one failure, moves the URL from the
\* active to the failed list, and makes no retry.
DiskSpaceGate ==
    [][\A t \in TaskIds :
          AttemptDiskFull(t)
          => /\ fut'[t].pc = "done"
             /\ fut'[t].result = "false"
             /\ fut'[t].cause = "Insufficient disk space"
             /\ fut'[t].attempt = NextAttempt(fut[t])
             /\ net'[t].gets = net[t].gets
             /\ stats'.failed = stats.failed + 1
             /\ Url(t) \notin download_queue'.active_downloads
             /\ Url(t) \in download_queue'.failed
             /\ disk' = disk]_vars

\* A transfer was refused by the disk-space gate on a retry, after a request
\* of an earlier attempt.
DiskSpaceGateWitness ==
    \E t \in TaskIds :
       /\ fut[t].pc = "done"
       /\ fut[t].cause = "Insufficient disk space"
       /\ fut[t].attempt > 0
       /\ net[t].gets > 0
       /\ stats.failed > 0
       /\ Url(t) \in download_queue.failed

\* The positions of _ensure_active_download's pause loop, at the gate before
\* the transfer and before a chunk.
PauseLoop == {"gate_sleep", "gate_while", "chunk_sleep", "chunk_while"}

\* Worker t takes a step that brings it to a poll point: the gate before the
\* transfer, or the check before a chunk that iter_content has yielded.
ReachesPollPoint(t) ==
    \/ fut[t].pc = "queued" /\ fut'[t].pc # "queued"
    \/ fut[t].pc = "stream" /\ net'[t].wire # net[t].wire

\* C27: a worker that reaches a poll point while paused is set and cancelled
\* is not enters the pause loop without writing, and while the flags stay
\* so every worker in the pause loop stays in it, writes no chunk and sends
\* no request.
PauseCooperative ==
    [][\A t \in TaskIds :
          (paused /\ ~cancelled)
          => /\ ReachesPollPoint(t)
                => (fut'[t].pc \in PauseLoop /\ disk' = disk)
             /\ fut[t].pc \in PauseLoop
                => /\ fut'[t].pc \in PauseLoop
                   /\ fut'[t] # fut[t] => disk' = disk
                   /\ net'[t] = net[t]
                   /\ fut'[t].chunk = fut[t].chunk]_vars

\* Two workers wait in the pause loop at once, one at the gate before its
\* transfer and one holding a chunk.
PauseCooperativeWitness ==
    /\ paused
    /\ ~cancelled
    /\ \E t, u \in TaskIds :
          /\ fut[t].pc = "gate_while"
          /\ fut[u].pc = "chunk_while"
          /\ fut[u].chunk # 0

\* Worker t reads the cancel flag at the gate before its transfer, on entry or
\* after a sleep of the pause loop, and finds it set.
FindsCancelAtGate(t) ==
    /\ cancelled
    /\ fut[t].pc \in {"queued", "gate_sleep"}
    /\ fut'[t] # fut[t]

\* C28: a transfer that finds the cancel flag set at the gate before the
\* transfer returns false with the cause "Cancelled" recorded for its URL,
\* has sent no request, and leaves no partial file at its destination.
CancelAtGate ==
    [][\A t \in TaskIds :
          FindsCancelAtGate(t)
          => /\ fut'[t].pc = "done"
             /\ fut'[t].result = "false"
             /\ fut'[t].cause = "Cancelled"
             /\ Url(t) \in download_queue'.failed
             /\ net'[t].gets = 0
             /\ ~disk'[Path(t)].exists]_vars

\* run calls get_thread_data or get_catalog_data: an index fetch begins, for
\* the next locator or for the next thread of a catalog.
BeginsFetch ==
    /\ opc' \in {"thread_delay", "catalog_delay"}
    /\ opc' # opc \/ discovery'.left # discovery.left

\* C29: once cancel() has been called, run begins no index fetch any more, for
\* the locators left or for the threads left of a catalog, and submits no
\* transfer. (A fetch that had begun before the call may end.)
CancelStopsDiscovery ==
    [][cancelled => /\ ~BeginsFetch
                    /\ discovery'.submitted = discovery.submitted]_vars

\* C30: every request the engine sends, for a thread index, a catalog index
\* or a media transfer attempt, comes after a sleep of the shared delay by
\* the thread that sends it, with no other request of that thread in between.
EveryRequestWaits ==
    \A k \in DOMAIN requests : requests[k].waited

\* The index fetches among the requests sent: thread and catalog JSON.
IndexFetches(log) == {k \in DOMAIN log : log[k].kind \in {"thread", "catalog"}}

FirstRequest == {"thread_get", "catalog_get"}
SecondRequest == {"thread_retry", "catalog_retry"}

\* The fetch of this step has returned no data to its caller: no file is
\* added, and no thread of the catalog is taken.
NoData ==
    /\ discovery'.total_files = discovery.total_files
    /\ opc \in {"catalog_get", "catalog_retry"} => discovery'.left = 0

\* C31: a call of get_thread_data or get_catalog_data sends at most two
\* requests: the second one only after a first failure classified
\* rate_limited and the doubling of the delay up to MAX_DELAY; any other
\* first failure grows the delay by BACKOFF_MULTIPLIER and returns no
\* data; a failure of the retry returns no data with no further request.
IndexFetchRetry ==
    [][/\ Len(requests') <= Len(requests) + 1
       /\ (opc \in FirstRequest /\ opc' # opc)
          => /\ Len(requests') = Len(requests) + 1
             /\ opc' \in SecondRequest <=> discovery'.error_info = "rate_limited"
             /\ discovery'.error_info = "rate_limited"
                => current_delay' = min(MAX_DELAY, current_delay * 2)
             /\ discovery'.error_info = "other"
                => /\ current_delay' = after_failure(current_delay)
                   /\ NoData
       /\ (opc \in SecondRequest /\ requests' # requests)
          => /\ opc' \notin FirstRequest \cup SecondRequest
             /\ current_delay' = current_delay
             /\ discovery'.error_info = "retry_failed" => NoData
       /\ (opc \notin FirstRequest \cup SecondRequest)
          => IndexFetches(requests') = IndexFetches(requests)]_vars

\* A fetch was rate limited on its first request, doubled the delay, and its
\* retry failed too: two requests of the one call, and no file.
IndexFetchRetryWitness ==
    /\ discovery.error_info = "retry_failed"
    /\ Len(requests) = 2
    /\ current_delay = 2 * BASE_DELAY
    /\ discovery.total_files = 0

\* C32: the gate before a request only waits and leaves the delay as it is;
\* the one decay of a successful index fetch is applied after the response.
GateOnlyWaits ==
    [][/\ (opc \in {"thread_delay", "catalog_delay"} /\ opc' # opc)
          => (discovery'.waited /\ current_delay' = current_delay)
       /\ (opc \in FirstRequest /\ opc' # opc /\ discovery'.error_info = "none")
          => current_delay' = after_success(current_delay)]_vars

\* The pool threads that are inside a call of download_file.
Executing == {w \in Threads : thr[w].pc # "idle"}

\* The urls of the calls the pool has handed to a thread so far.
TakenUrls == 1..discovery.taken

\* C33: at most MAX_WORKERS transfers execute at a time and, the urls being
\* distinct, at most MAX_WORKERS urls are active, however many calls were
\* submitted; the active urls are those of the executing calls, every call
\* handed to a thread has its own url, and when run returns every submitted
\* call has been executed, each one once.
BoundedPool ==
    /\ Cardinality(Executing) <= MAX_WORKERS
    /\ Cardinality(download_queue.active_downloads) <= MAX_WORKERS
    /\ download_queue.active_downloads = {thr[w].url : w \in Executing}
    /\ \A v, w \in Executing : thr[v].url = thr[w].url => v = w
    /\ discovery.taken <= discovery.submitted
    /\ discovery.submitted <= discovery.total_files
    /\ download_queue.active_downloads \cup download_queue.completed
          \cup download_queue.failed = TakenUrls
    /\ Len(download_queue.history) = Cardinality(TakenUrls \ {thr[w].url : w \in Executing})
    /\ opc = "finished" => /\ discovery.taken = discovery.total_files
                           /\ Executing = {}

\* More calls than pool threads were submitted, the pool is full, one call
\* has returned and one still waits for a thread.
BoundedPoolWitness ==
    /\ discovery.submitted > MAX_WORKERS + 1
    /\ Cardinality(Executing) = MAX_WORKERS
    /\ download_queue.completed # {}
    /\ discovery.taken < discovery.submitted

Progress == {i \in DOMAIN events : events[i].e = "progress"}

\* The run has ended with the final statistics, and cancel() was not called
\* while it discovered or collected.
EndedNotCancelled ==
    /\ opc = "idle"
    /\ batch >= 1
    /\ ~cancelIn
    /\ HasEvent("complete")

\* C34: run emits one progress event for each completion it collects; the
\* k-th of them carries completed = k, which never exceeds the total; in a
\* batch that is not cancelled the last one carries the total and comes
\* before the final statistics.
ProgressEvents ==
    /\ \A i \in Progress :
          /\ events[i].n = Cardinality({j \in Progress : j <= i})
          /\ events[i].n <= Len(tasks)
    /\ Cardinality(Progress) = Cardinality(collected)
    /\ completed = Cardinality(collected)
    /\ EndedNotCancelled
       => \E i \in Progress :
             /\ events[i].n = Len(tasks)
             /\ \A j \in Progress : j <= i
             /\ \A j \in DOMAIN events : events[j].e = "complete" => i < j

\* C35: a failure of calculate_hash never makes a transfer fail: on the file
\* just written the transfer still counts the download, completes the url
\* and returns true; on an existing destination file the attempt counts
\* nothing as skipped or duplicate and goes on to the disk-space gate and
\* the request.
HashFailureHarmless ==
    [][\A t \in TaskIds :
          /\ FinishHashError(t)
             => /\ fut'[t].pc = "done"
                /\ fut'[t].result = "true"
                /\ stats' = [stats EXCEPT !.downloaded = @ + 1]
                /\ Url(t) \in download_queue'.completed
                /\ Url(t) \notin download_queue'.active_downloads
                /\ disk' = disk
          /\ AttemptHashError(t)
             => /\ stats'.skipped = stats.skipped
                /\ stats'.duplicates = stats.duplicates
                /\ fut'[t].result # "true"
                /\ \/ net'[t].gets = net[t].gets + 1
                   \/ fut'[t].cause = "Insufficient disk space"]_vars

\* A transfer has returned true with the full content on disk and its hash
\* not recorded: the hash of the written file could not be computed.
HashFailureWitness ==
    \E t \in TaskIds :
       /\ fut[t].pc = "done"
       /\ fut[t].result = "true"
       /\ net[t].gets > 0
       /\ disk[Path(t)] = FullFile(t)
       /\ calculate_hash(disk[Path(t)]) \notin downloaded_hashes
       /\ stats.downloaded > 0

\* C36: a transfer that found no file at its destination returns true only
\* with the complete remote content there; a truncated file left by a failed
\* attempt is never reported as a success.
SuccessMeansComplete ==
    \A t \in TaskIds :
        (/\ fut[t].pc = "done"
         /\ fut[t].result = "true"
         /\ net[t].found = -1)
        => disk[Path(t)] = FullFile(t)

\* The descriptors of the batch have pairwise distinct urls.
DistinctUrls ==
    \A i, j \in 1..Len(tasks) : tasks[i].url = tasks[j].url => i = j

\* C37: in a batch with pairwise distinct urls, every call of download_file
\* that has returned has left its url out of the active urls, and among the
\* completed ones when it returned true, among the failed ones when it
\* returned false, whatever the way it returned.
TransferPostCondition ==
    DistinctUrls
    => \A t \in TaskIds :
          fut[t].pc = "done"
          => /\ Url(t) \notin download_queue.active_downloads
             /\ fut[t].result = "true" => Url(t) \in download_queue.completed
             /\ fut[t].result = "false" => Url(t) \in download_queue.failed

\* Two calls with distinct urls have returned, one true after a transfer and
\* one false, cancelled in the middle of its stream.
TransferPostWitness ==
    /\ DistinctUrls
    /\ \E t, u \in TaskIds :
          /\ fut[t].pc = "done" /\ fut[t].result = "true" /\ net[t].gets > 0
          /\ fut[u].pc = "done" /\ fut[u].cause = "Cancelled" /\ net[u].wire > 0

\* The run has ended and emitted its finished signal with the statistics.
RunEnded == opc = "idle" /\ HasEvent("finished")

CancelInPauseLoop ==
    [][\A t \in TaskIds :
          (cancelled /\ fut[t].pc \in PauseLoop /\ fut'[t].pc \notin PauseLoop)
          => /\ fut'[t].pc = "done"
             /\ fut'[t].result = "false"
             /\ fut'[t].cause = "Cancelled"
             /\ Url(t) \in download_queue'.failed
             /\ net'[t].gets = net[t].gets
             /\ Len(disk'[Path(t)].data) <= Len(disk[Path(t)].data)]_vars

\* The step by which a call of download_file returns False as cancelled.
EndsCancelled(t) ==
    /\ fut[t].pc # "done"
    /\ fut'[t].pc = "done"
    /\ fut'[t].cause = "Cancelled"

\* C40: the step by which a transfer ends as cancelled, at the gate or in the
\* middle of its stream, leaves its url among the failed ones with a failed
\* record of error "Cancelled" in the history and every counter as it was;
\* and no step leaves the failed counter above the number of failed urls.
CancelledNotCounted ==
    [][/\ stats'.failed <= Cardinality(download_queue'.failed)
       /\ \A t \in TaskIds :
             EndsCancelled(t)
             => /\ Url(t) \in download_queue'.failed
                /\ \E i \in DOMAIN download_queue'.history :
                      download_queue'.history[i] =
                          [url |-> Url(t), status |-> "failed",
                           error |-> "Cancelled"]
                /\ stats' = stats]_vars

====
